---- MODULE Spec2Model ----
(***************************************************************************)
(* shoyu.nvim: the snippet-image pipeline behind generate_snippet_image.   *)
(*                                                                         *)
(* Strings are sequences of one-character strings, so that lowercasing,    *)
(* prefix stripping, byte lengths and hex parsing are computed and not     *)
(* assumed.  f32 quantities of RenderConfig are kept in quarters (the      *)
(* value 5 stands for 1.25); every product the code forms from them is     *)
(* exact in f32 for the magnitudes used here, and `as u32` truncates       *)
(* toward zero and saturates.                                              *)
(***************************************************************************)
EXTENDS Integers, Sequences, FiniteSets, TLC

\* ------------------------------------------------------------------ bounds
\* longest code argument, in characters
MaxCodeLen == 2
\* most fields left out of one configuration document
MaxOmitted == 1
\* longest hex-color body (characters after the leading '#' run)
MaxHexLen == 7
\* longest run of leading '#' of a hex-color input
MaxHashes == 2
\* largest width and height of a drawn rectangle; surfaces are one larger
MaxSide == 5
\* largest radius of a drawn circle
MaxRadius == 3
\* widest gradient row
MaxGradientWidth == 4

\* the longest text handed to draw_text
MaxTextLen == 3

\* the longest line handed to highlight_line and the longest code handed to
\* highlight_code on its own
MaxLineLen == 3

\* most lines of a snippet laid out on its own
MaxLayoutLines == 3

\* ------------------------------------------------------------ small helpers
Min(a, b) == IF a <= b THEN a ELSE b

\* all sequences over S of length at most n
SeqsUpTo(S, n) == UNION {[1..k -> S] : k \in 0..n}

\* `(numer/denom) as u32` for a positive denom: truncation toward zero, negative
\* values saturate to 0 (magnitudes here stay far below u32::MAX)
AsU32(numer, denom) ==
  IF numer <= 0 THEN 0 ELSE numer \div denom

\* f32::ceil followed by `as u32`
CeilAsU32(numer, denom) ==
  IF numer <= 0 THEN 0 ELSE (numer + denom - 1) \div denom

\* ------------------------------------------------------------- characters
\* a two-byte UTF-8 character (e.g. U+00E9); every other character used in
\* this module is ASCII
WideChar == "U+00E9"

\* str::len counts bytes
ByteLen(c) == IF c = WideChar THEN 2 ELSE 1

UpperLetters ==
  <<"A","B","C","D","E","F","G","H","I","J","K","L","M",
    "N","O","P","Q","R","S","T","U","V","W","X","Y","Z">>

LowerLetters ==
  <<"a","b","c","d","e","f","g","h","i","j","k","l","m",
    "n","o","p","q","r","s","t","u","v","w","x","y","z">>

\* char lowercasing, as str::to_lowercase applies it to each character
ToLowerChar(c) ==
  IF \E i \in 1..26 : UpperLetters[i] = c
    THEN LowerLetters[CHOOSE i \in 1..26 : UpperLetters[i] = c]
    ELSE c

to_lowercase(s) == [i \in 1..Len(s) |-> ToLowerChar(s[i])]

HexDigits == <<"0","1","2","3","4","5","6","7","8","9","a","b","c","d","e","f">>

IsHexDigit(c) == \E i \in 1..16 : HexDigits[i] = ToLowerChar(c)

\* char::to_digit(16)
HexVal(c) == (CHOOSE i \in 1..16 : HexDigits[i] = ToLowerChar(c)) - 1

\* ------------------------------------------------------- hex conversions
\* str::trim_start_matches('#'): drops EVERY leading '#'
RECURSIVE trim_start_matches(_, _)
trim_start_matches(s, c) ==
  IF Len(s) > 0 /\ s[1] = c THEN trim_start_matches(Tail(s), c) ELSE s

\* the UTF-8 bytes of s: each byte remembers its character and its index in it
RECURSIVE Bytes(_)
Bytes(s) ==
  IF s = <<>> THEN <<>>
  ELSE [k \in 1..ByteLen(s[1]) |-> [ch |-> s[1], k |-> k]] \o Bytes(Tail(s))

\* str::is_char_boundary(off), off a byte offset
IsCharBoundary(bytes, off) ==
  off = 0 \/ off = Len(bytes) \/ (off < Len(bytes) /\ bytes[off + 1].k = 1)

\* the characters of the byte range [from, to) of a string, both ends being
\* character boundaries
SliceChars(bytes, from, to) ==
  LET sel == SelectSeq(SubSeq(bytes, from + 1, to), LAMBDA b : b.k = 1)
  IN  [i \in 1..Len(sel) |-> sel[i].ch]

\* u8::from_str_radix(src, 16): one leading '+' is accepted, '-' is not (u8 is
\* unsigned), every remaining character must be a hex digit, the value must
\* fit a u8
RECURSIVE RadixValue(_, _)
RadixValue(digits, acc) ==
  IF digits = <<>> THEN acc
  ELSE RadixValue(Tail(digits), acc * 16 + HexVal(digits[1]))

FitsU8(v) == IF v > 255 THEN [ok |-> FALSE, v |-> 0] ELSE [ok |-> TRUE, v |-> v]

RadixOf(digits) ==
  IF digits = <<>> \/ \E i \in 1..Len(digits) : ~IsHexDigit(digits[i])
    THEN [ok |-> FALSE, v |-> 0]
    ELSE FitsU8(RadixValue(digits, 0))

from_str_radix(src) ==
  RadixOf(IF Len(src) > 0 /\ src[1] = "+" THEN Tail(src) ELSE src)

\* the three channel slices &hex[0..2], &hex[2..4], &hex[4..6] parsed in
\* order; slicing off a character boundary panics, a bad channel returns
\* the error before the next slice is taken
ChannelsResult(bytes, chan) ==
  IF ~IsCharBoundary(bytes, 2) THEN [kind |-> "panic", rgb |-> <<>>]
  ELSE IF ~chan[0].ok THEN [kind |-> "err", rgb |-> <<>>]
  ELSE IF ~IsCharBoundary(bytes, 4) THEN [kind |-> "panic", rgb |-> <<>>]
  ELSE IF ~chan[1].ok THEN [kind |-> "err", rgb |-> <<>>]
  ELSE IF ~chan[2].ok THEN [kind |-> "err", rgb |-> <<>>]
  ELSE [kind |-> "ok", rgb |-> <<chan[0].v, chan[1].v, chan[2].v>>]

ParseChannels(bytes) ==
  ChannelsResult(bytes,
    [n \in 0..2 |-> from_str_radix(SliceChars(bytes, 2 * n, 2 * n + 2))])

\* the length test `hex.len() != 6` (bytes), then the channels
CheckedChannels(bytes) ==
  IF Len(bytes) # 6 THEN [kind |-> "err", rgb |-> <<>>]
  ELSE ParseChannels(bytes)

\* themes.rs hex_to_rgb: Ok((r, g, b)) | Err(&str) | panic
hex_to_rgb(hex) == CheckedChannels(Bytes(trim_start_matches(hex, "#")))

\* Rgba([r, g, b, 255])
WithAlpha(p) ==
  [kind |-> p.kind, rgba |-> IF p.kind = "ok" THEN p.rgb \o <<255>> ELSE <<>>]

\* renderer.rs rgba_from_hex: Ok(Rgba([r, g, b, 255])) | Err | panic
rgba_from_hex(hex) ==
  WithAlpha(CheckedChannels(Bytes(trim_start_matches(hex, "#"))))

\* hex_to_rgb(hex).unwrap_or((255, 255, 255)); a panic is not an Err and
\* unwinds through ThemeColor::new
UnwrapOrWhite(hex, r) ==
  [hex |-> hex, rgb |-> IF r.kind = "ok" THEN r.rgb ELSE <<255, 255, 255>>]

\* ThemeColor::new: the string is stored as given and a conversion error is
\* replaced by white
ThemeColor_new(hex) == UnwrapOrWhite(hex, hex_to_rgb(hex))

ThemeColor_new_panics(hex) == hex_to_rgb(hex).kind = "panic"

\* two hex digits per channel, drawn from the given digit table
FormatChannels(rgb, digits) ==
  <<"#">> \o [i \in 1..6 |->
     digits[(IF i % 2 = 1 THEN rgb[(i + 1) \div 2] \div 16
                          ELSE rgb[(i + 1) \div 2] % 16) + 1]]

\* a formatter that writes upper-case digits ({:02X})
format_hex_upper(rgb) ==
  FormatChannels(rgb, [i \in 1..16 |-> IF i <= 10 THEN HexDigits[i] ELSE UpperLetters[i - 10]])

\* format!("#{:02x}{:02x}{:02x}", r, g, b)
format_hex(rgb) == FormatChannels(rgb, HexDigits)

\* ------------------------------------------------------------- themes.rs
\* the Dracula table with the last digit of the background color lost
dracula_theme_typo ==
  [ name |-> <<"D", "r", "a", "c", "u", "l", "a">>,
    background |-> ThemeColor_new(<<"#", "2", "8", "2", "a", "3">>),
    foreground |-> ThemeColor_new(<<"#", "f", "8", "f", "8", "f", "2">>),
    comment |-> ThemeColor_new(<<"#", "6", "2", "7", "2", "a", "4">>),
    keyword |-> ThemeColor_new(<<"#", "f", "f", "7", "9", "c", "6">>),
    string |-> ThemeColor_new(<<"#", "f", "1", "f", "a", "8", "c">>),
    number |-> ThemeColor_new(<<"#", "b", "d", "9", "3", "f", "9">>),
    function |-> ThemeColor_new(<<"#", "5", "0", "f", "a", "7", "b">>),
    type_color |-> ThemeColor_new(<<"#", "8", "b", "e", "9", "f", "d">>),
    variable |-> ThemeColor_new(<<"#", "f", "8", "f", "8", "f", "2">>),
    operator |-> ThemeColor_new(<<"#", "f", "f", "7", "9", "c", "6">>),
    punctuation |-> ThemeColor_new(<<"#", "f", "8", "f", "8", "f", "2">>),
    constant |-> ThemeColor_new(<<"#", "b", "d", "9", "3", "f", "9">>),
    class |-> ThemeColor_new(<<"#", "8", "b", "e", "9", "f", "d">>) ]

dracula_theme ==
  [ name |-> <<"D", "r", "a", "c", "u", "l", "a">>,
    background |-> ThemeColor_new(<<"#", "2", "8", "2", "a", "3", "6">>),
    foreground |-> ThemeColor_new(<<"#", "f", "8", "f", "8", "f", "2">>),
    comment |-> ThemeColor_new(<<"#", "6", "2", "7", "2", "a", "4">>),
    keyword |-> ThemeColor_new(<<"#", "f", "f", "7", "9", "c", "6">>),
    string |-> ThemeColor_new(<<"#", "f", "1", "f", "a", "8", "c">>),
    number |-> ThemeColor_new(<<"#", "b", "d", "9", "3", "f", "9">>),
    function |-> ThemeColor_new(<<"#", "5", "0", "f", "a", "7", "b">>),
    type_color |-> ThemeColor_new(<<"#", "8", "b", "e", "9", "f", "d">>),
    variable |-> ThemeColor_new(<<"#", "f", "8", "f", "8", "f", "2">>),
    operator |-> ThemeColor_new(<<"#", "f", "f", "7", "9", "c", "6">>),
    punctuation |-> ThemeColor_new(<<"#", "f", "8", "f", "8", "f", "2">>),
    constant |-> ThemeColor_new(<<"#", "b", "d", "9", "3", "f", "9">>),
    class |-> ThemeColor_new(<<"#", "8", "b", "e", "9", "f", "d">>) ]

monokai_theme ==
  [ name |-> <<"M", "o", "n", "o", "k", "a", "i">>,
    background |-> ThemeColor_new(<<"#", "2", "7", "2", "8", "2", "2">>),
    foreground |-> ThemeColor_new(<<"#", "f", "8", "f", "8", "f", "2">>),
    comment |-> ThemeColor_new(<<"#", "7", "5", "7", "1", "5", "e">>),
    keyword |-> ThemeColor_new(<<"#", "f", "9", "2", "6", "7", "2">>),
    string |-> ThemeColor_new(<<"#", "e", "6", "d", "b", "7", "4">>),
    number |-> ThemeColor_new(<<"#", "a", "e", "8", "1", "f", "f">>),
    function |-> ThemeColor_new(<<"#", "a", "6", "e", "2", "2", "e">>),
    type_color |-> ThemeColor_new(<<"#", "6", "6", "d", "9", "e", "f">>),
    variable |-> ThemeColor_new(<<"#", "f", "8", "f", "8", "f", "2">>),
    operator |-> ThemeColor_new(<<"#", "f", "9", "2", "6", "7", "2">>),
    punctuation |-> ThemeColor_new(<<"#", "f", "8", "f", "8", "f", "2">>),
    constant |-> ThemeColor_new(<<"#", "a", "e", "8", "1", "f", "f">>),
    class |-> ThemeColor_new(<<"#", "a", "6", "e", "2", "2", "e">>) ]

github_theme ==
  [ name |-> <<"G", "i", "t", "H", "u", "b">>,
    background |-> ThemeColor_new(<<"#", "f", "f", "f", "f", "f", "f">>),
    foreground |-> ThemeColor_new(<<"#", "2", "4", "2", "9", "2", "e">>),
    comment |-> ThemeColor_new(<<"#", "6", "a", "7", "3", "7", "d">>),
    keyword |-> ThemeColor_new(<<"#", "d", "7", "3", "a", "4", "9">>),
    string |-> ThemeColor_new(<<"#", "0", "3", "2", "f", "6", "2">>),
    number |-> ThemeColor_new(<<"#", "0", "0", "5", "c", "c", "5">>),
    function |-> ThemeColor_new(<<"#", "6", "f", "4", "2", "c", "1">>),
    type_color |-> ThemeColor_new(<<"#", "0", "0", "5", "c", "c", "5">>),
    variable |-> ThemeColor_new(<<"#", "2", "4", "2", "9", "2", "e">>),
    operator |-> ThemeColor_new(<<"#", "d", "7", "3", "a", "4", "9">>),
    punctuation |-> ThemeColor_new(<<"#", "2", "4", "2", "9", "2", "e">>),
    constant |-> ThemeColor_new(<<"#", "0", "0", "5", "c", "c", "5">>),
    class |-> ThemeColor_new(<<"#", "6", "f", "4", "2", "c", "1">>) ]

nord_theme ==
  [ name |-> <<"N", "o", "r", "d">>,
    background |-> ThemeColor_new(<<"#", "2", "e", "3", "4", "4", "0">>),
    foreground |-> ThemeColor_new(<<"#", "d", "8", "d", "e", "e", "9">>),
    comment |-> ThemeColor_new(<<"#", "6", "1", "6", "e", "8", "8">>),
    keyword |-> ThemeColor_new(<<"#", "8", "1", "a", "1", "c", "1">>),
    string |-> ThemeColor_new(<<"#", "a", "3", "b", "e", "8", "c">>),
    number |-> ThemeColor_new(<<"#", "b", "4", "8", "e", "a", "d">>),
    function |-> ThemeColor_new(<<"#", "8", "8", "c", "0", "d", "0">>),
    type_color |-> ThemeColor_new(<<"#", "8", "1", "a", "1", "c", "1">>),
    variable |-> ThemeColor_new(<<"#", "d", "8", "d", "e", "e", "9">>),
    operator |-> ThemeColor_new(<<"#", "8", "1", "a", "1", "c", "1">>),
    punctuation |-> ThemeColor_new(<<"#", "e", "c", "e", "f", "f", "4">>),
    constant |-> ThemeColor_new(<<"#", "b", "4", "8", "e", "a", "d">>),
    class |-> ThemeColor_new(<<"#", "8", "f", "b", "c", "b", "b">>) ]

solarized_dark_theme ==
  [ name |-> <<"S", "o", "l", "a", "r", "i", "z", "e", "d", " ", "D", "a", "r", "k">>,
    background |-> ThemeColor_new(<<"#", "0", "0", "2", "b", "3", "6">>),
    foreground |-> ThemeColor_new(<<"#", "8", "3", "9", "4", "9", "6">>),
    comment |-> ThemeColor_new(<<"#", "5", "8", "6", "e", "7", "5">>),
    keyword |-> ThemeColor_new(<<"#", "8", "5", "9", "9", "0", "0">>),
    string |-> ThemeColor_new(<<"#", "2", "a", "a", "1", "9", "8">>),
    number |-> ThemeColor_new(<<"#", "d", "3", "3", "6", "8", "2">>),
    function |-> ThemeColor_new(<<"#", "2", "6", "8", "b", "d", "2">>),
    type_color |-> ThemeColor_new(<<"#", "b", "5", "8", "9", "0", "0">>),
    variable |-> ThemeColor_new(<<"#", "8", "3", "9", "4", "9", "6">>),
    operator |-> ThemeColor_new(<<"#", "8", "5", "9", "9", "0", "0">>),
    punctuation |-> ThemeColor_new(<<"#", "9", "3", "a", "1", "a", "1">>),
    constant |-> ThemeColor_new(<<"#", "c", "b", "4", "b", "1", "6">>),
    class |-> ThemeColor_new(<<"#", "b", "5", "8", "9", "0", "0">>) ]

solarized_light_theme ==
  [ name |-> <<"S", "o", "l", "a", "r", "i", "z", "e", "d", " ", "L", "i", "g", "h", "t">>,
    background |-> ThemeColor_new(<<"#", "f", "d", "f", "6", "e", "3">>),
    foreground |-> ThemeColor_new(<<"#", "6", "5", "7", "b", "8", "3">>),
    comment |-> ThemeColor_new(<<"#", "9", "3", "a", "1", "a", "1">>),
    keyword |-> ThemeColor_new(<<"#", "8", "5", "9", "9", "0", "0">>),
    string |-> ThemeColor_new(<<"#", "2", "a", "a", "1", "9", "8">>),
    number |-> ThemeColor_new(<<"#", "d", "3", "3", "6", "8", "2">>),
    function |-> ThemeColor_new(<<"#", "2", "6", "8", "b", "d", "2">>),
    type_color |-> ThemeColor_new(<<"#", "b", "5", "8", "9", "0", "0">>),
    variable |-> ThemeColor_new(<<"#", "6", "5", "7", "b", "8", "3">>),
    operator |-> ThemeColor_new(<<"#", "8", "5", "9", "9", "0", "0">>),
    punctuation |-> ThemeColor_new(<<"#", "5", "8", "6", "e", "7", "5">>),
    constant |-> ThemeColor_new(<<"#", "c", "b", "4", "b", "1", "6">>),
    class |-> ThemeColor_new(<<"#", "b", "5", "8", "9", "0", "0">>) ]

one_dark_theme ==
  [ name |-> <<"O", "n", "e", " ", "D", "a", "r", "k">>,
    background |-> ThemeColor_new(<<"#", "2", "8", "2", "c", "3", "4">>),
    foreground |-> ThemeColor_new(<<"#", "a", "b", "b", "2", "b", "f">>),
    comment |-> ThemeColor_new(<<"#", "5", "c", "6", "3", "7", "0">>),
    keyword |-> ThemeColor_new(<<"#", "c", "6", "7", "8", "d", "d">>),
    string |-> ThemeColor_new(<<"#", "9", "8", "c", "3", "7", "9">>),
    number |-> ThemeColor_new(<<"#", "d", "1", "9", "a", "6", "6">>),
    function |-> ThemeColor_new(<<"#", "6", "1", "a", "f", "e", "f">>),
    type_color |-> ThemeColor_new(<<"#", "e", "0", "6", "c", "7", "5">>),
    variable |-> ThemeColor_new(<<"#", "a", "b", "b", "2", "b", "f">>),
    operator |-> ThemeColor_new(<<"#", "c", "6", "7", "8", "d", "d">>),
    punctuation |-> ThemeColor_new(<<"#", "a", "b", "b", "2", "b", "f">>),
    constant |-> ThemeColor_new(<<"#", "d", "1", "9", "a", "6", "6">>),
    class |-> ThemeColor_new(<<"#", "e", "5", "c", "0", "7", "b">>) ]

gruvbox_theme ==
  [ name |-> <<"G", "r", "u", "v", "b", "o", "x">>,
    background |-> ThemeColor_new(<<"#", "2", "8", "2", "8", "2", "8">>),
    foreground |-> ThemeColor_new(<<"#", "e", "b", "d", "b", "b", "2">>),
    comment |-> ThemeColor_new(<<"#", "9", "2", "8", "3", "7", "4">>),
    keyword |-> ThemeColor_new(<<"#", "f", "b", "4", "9", "3", "4">>),
    string |-> ThemeColor_new(<<"#", "b", "8", "b", "b", "2", "6">>),
    number |-> ThemeColor_new(<<"#", "d", "3", "8", "6", "9", "b">>),
    function |-> ThemeColor_new(<<"#", "f", "a", "b", "d", "2", "f">>),
    type_color |-> ThemeColor_new(<<"#", "f", "e", "8", "0", "1", "9">>),
    variable |-> ThemeColor_new(<<"#", "e", "b", "d", "b", "b", "2">>),
    operator |-> ThemeColor_new(<<"#", "f", "b", "4", "9", "3", "4">>),
    punctuation |-> ThemeColor_new(<<"#", "e", "b", "d", "b", "b", "2">>),
    constant |-> ThemeColor_new(<<"#", "d", "3", "8", "6", "9", "b">>),
    class |-> ThemeColor_new(<<"#", "8", "e", "c", "0", "7", "c">>) ]

\* Option<T>
None == [some |-> FALSE]

Some(x) == [some |-> TRUE, v |-> x]

\* the arms of the match in get_theme
ThemeMatch(n) ==
  IF n = <<"d", "r", "a", "c", "u", "l", "a">> THEN Some(dracula_theme)
  ELSE IF n = <<"m", "o", "n", "o", "k", "a", "i">> THEN Some(monokai_theme)
  ELSE IF n = <<"g", "i", "t", "h", "u", "b">> THEN Some(github_theme)
  ELSE IF n = <<"n", "o", "r", "d">> THEN Some(nord_theme)
  ELSE IF n = <<"s", "o", "l", "a", "r", "i", "z", "e", "d", "-", "d", "a", "r", "k">> THEN Some(solarized_dark_theme)
  ELSE IF n = <<"s", "o", "l", "a", "r", "i", "z", "e", "d", "-", "l", "i", "g", "h", "t">> THEN Some(solarized_light_theme)
  ELSE IF n = <<"o", "n", "e", "-", "d", "a", "r", "k">> THEN Some(one_dark_theme)
  ELSE IF n = <<"g", "r", "u", "v", "b", "o", "x">> THEN Some(gruvbox_theme)
  ELSE None

\* a lookup that compares the name as given
get_theme_exact(name) == ThemeMatch(name)

\* get_theme: the match on name.to_lowercase()
get_theme(name) == ThemeMatch(to_lowercase(name))

\* get_theme_names: the list returned to callers
get_theme_names ==
  << <<"d", "r", "a", "c", "u", "l", "a">>,
     <<"m", "o", "n", "o", "k", "a", "i">>,
     <<"g", "i", "t", "h", "u", "b">>,
     <<"n", "o", "r", "d">>,
     <<"s", "o", "l", "a", "r", "i", "z", "e", "d", "-", "d", "a", "r", "k">>,
     <<"s", "o", "l", "a", "r", "i", "z", "e", "d", "-", "l", "i", "g", "h", "t">>,
     <<"o", "n", "e", "-", "d", "a", "r", "k">>,
     <<"g", "r", "u", "v", "b", "o", "x">> >>

\* ------------------------------------------------------------- syntax.rs
KeywordTable ==
  { <<"f", "n">>, <<"l", "e", "t">>, <<"m", "u", "t">>,
    <<"c", "o", "n", "s", "t">>, <<"i", "f">>, <<"e", "l", "s", "e">>,
    <<"w", "h", "i", "l", "e">>, <<"f", "o", "r">>, <<"l", "o", "o", "p">>,
    <<"m", "a", "t", "c", "h">>, <<"r", "e", "t", "u", "r", "n">>, <<"b", "r", "e", "a", "k">>,
    <<"c", "o", "n", "t", "i", "n", "u", "e">>, <<"p", "u", "b">>, <<"m", "o", "d">>,
    <<"u", "s", "e">>, <<"s", "t", "r", "u", "c", "t">>, <<"e", "n", "u", "m">>,
    <<"t", "r", "a", "i", "t">>, <<"i", "m", "p", "l">>, <<"w", "h", "e", "r", "e">>,
    <<"a", "s", "y", "n", "c">>, <<"a", "w", "a", "i", "t">>, <<"m", "o", "v", "e">>,
    <<"s", "t", "a", "t", "i", "c">>, <<"f", "u", "n", "c", "t", "i", "o", "n">>, <<"v", "a", "r">>,
    <<"c", "l", "a", "s", "s">>, <<"i", "m", "p", "o", "r", "t">>, <<"e", "x", "p", "o", "r", "t">>,
    <<"f", "r", "o", "m">>, <<"a", "s">>, <<"d", "e", "f", "a", "u", "l", "t">>,
    <<"d", "e", "f">>, <<"l", "a", "m", "b", "d", "a">>, <<"p", "a", "s", "s">>,
    <<"w", "i", "t", "h">>, <<"t", "r", "y">>, <<"e", "x", "c", "e", "p", "t">>,
    <<"f", "i", "n", "a", "l", "l", "y">>, <<"r", "a", "i", "s", "e">>, <<"a", "n", "d">>,
    <<"o", "r">>, <<"n", "o", "t">>, <<"i", "s">>,
    <<"i", "n">>, <<"T", "r", "u", "e">>, <<"F", "a", "l", "s", "e">>,
    <<"N", "o", "n", "e">>, <<"n", "u", "l", "l">>, <<"u", "n", "d", "e", "f", "i", "n", "e", "d">> }

TypeTable ==
  { <<"i", "8">>, <<"i", "1", "6">>, <<"i", "3", "2">>,
    <<"i", "6", "4">>, <<"u", "8">>, <<"u", "1", "6">>,
    <<"u", "3", "2">>, <<"u", "6", "4">>, <<"f", "3", "2">>,
    <<"f", "6", "4">>, <<"b", "o", "o", "l">>, <<"c", "h", "a", "r">>,
    <<"s", "t", "r">>, <<"S", "t", "r", "i", "n", "g">>, <<"V", "e", "c">>,
    <<"O", "p", "t", "i", "o", "n">>, <<"R", "e", "s", "u", "l", "t">>, <<"B", "o", "x">>,
    <<"i", "n", "t">>, <<"f", "l", "o", "a", "t">>, <<"s", "t", "r", "i", "n", "g">>,
    <<"b", "o", "o", "l", "e", "a", "n">>, <<"o", "b", "j", "e", "c", "t">>, <<"a", "r", "r", "a", "y">> }

SyntaxNameTable ==
  { <<<<"j", "s">>, "JavaScript">>,
    <<<<"j", "a", "v", "a", "s", "c", "r", "i", "p", "t">>, "JavaScript">>,
    <<<<"t", "s">>, "TypeScript">>,
    <<<<"t", "y", "p", "e", "s", "c", "r", "i", "p", "t">>, "TypeScript">>,
    <<<<"p", "y">>, "Python">>,
    <<<<"p", "y", "t", "h", "o", "n">>, "Python">>,
    <<<<"r", "s">>, "Rust">>,
    <<<<"r", "u", "s", "t">>, "Rust">>,
    <<<<"g", "o">>, "Go">>,
    <<<<"j", "a", "v", "a">>, "Java">>,
    <<<<"c">>, "C">>,
    <<<<"c", "p", "p">>, "C++">>,
    <<<<"c", "+", "+">>, "C++">>,
    <<<<"h", "t", "m", "l">>, "HTML">>,
    <<<<"c", "s", "s">>, "CSS">>,
    <<<<"j", "s", "o", "n">>, "JSON">>,
    <<<<"y", "a", "m", "l">>, "YAML">>,
    <<<<"y", "m", "l">>, "YAML">>,
    <<<<"x", "m", "l">>, "XML">>,
    <<<<"m", "d">>, "Markdown">>,
    <<<<"m", "a", "r", "k", "d", "o", "w", "n">>, "Markdown">>,
    <<<<"b", "a", "s", "h">>, "Bourne Again Shell (bash)">>,
    <<<<"s", "h", "e", "l", "l">>, "Bourne Again Shell (bash)">>,
    <<<<"s", "h">>, "Bourne Again Shell (bash)">>,
    <<<<"s", "q", "l">>, "SQL">>,
    <<<<"p", "h", "p">>, "PHP">>,
    <<<<"r", "u", "b", "y">>, "Ruby">>,
    <<<<"r", "b">>, "Ruby">>,
    <<<<"s", "w", "i", "f", "t">>, "Swift">>,
    <<<<"k", "o", "t", "l", "i", "n">>, "Kotlin">>,
    <<<<"k", "t">>, "Kotlin">>,
    <<<<"s", "c", "a", "l", "a">>, "Scala">>,
    <<<<"l", "u", "a">>, "Lua">>,
    <<<<"v", "i", "m">>, "VimL">> }

\* the external grammar set (SyntaxSet::load_defaults_newlines): the syntax
\* names and the file extensions it knows; TypeScript, Swift, Kotlin and VimL
\* are not part of the default set
SyntectSyntaxNames ==
  { "JavaScript", "Python", "Rust", "Go", "Java", "C", "C++", "HTML", "CSS",
    "JSON", "YAML", "XML", "Markdown", "Bourne Again Shell (bash)", "SQL",
    "PHP", "Ruby", "Scala", "Lua" }

SyntectExtensions ==
  { <<<<"r", "s">>, "Rust">>, <<<<"p", "y">>, "Python">>,
    <<<<"t", "x", "t">>, "Plain Text">>, <<<<"h", "s">>, "Haskell">> }

find_syntax_by_extension(ext) ==
  IF \E p \in SyntectExtensions : p[1] = ext
    THEN Some((CHOOSE p \in SyntectExtensions : p[1] = ext)[2])
    ELSE None

find_syntax_by_name(name) ==
  IF name \in SyntectSyntaxNames THEN Some(name) ELSE None

\* SyntaxHighlighter::find_syntax_by_language
find_syntax_by_language(language) ==
  LET lang == to_lowercase(language)
  IN  IF \E p \in SyntaxNameTable : p[1] = lang
        THEN LET syntax_name == (CHOOSE p \in SyntaxNameTable : p[1] = lang)[2]
             IN  IF find_syntax_by_name(syntax_name).some
                   THEN find_syntax_by_name(syntax_name)
                   ELSE find_syntax_by_extension(lang)
        ELSE find_syntax_by_extension(lang)

\* syntect's LinesWithEndings: each line keeps its terminator
RECURSIVE LinesWithEndings(_)
LinesWithEndings(code) ==
  IF code = <<>> THEN <<>>
  ELSE IF \E i \in 1..Len(code) : code[i] = "\n"
    THEN LET n == CHOOSE i \in 1..Len(code) :
                    code[i] = "\n" /\ \A j \in 1..(i - 1) : code[j] # "\n"
         IN  <<SubSeq(code, 1, n)>> \o LinesWithEndings(SubSeq(code, n + 1, Len(code)))
    ELSE <<code>>

\* str::lines: terminator "\n" or "\r\n" stripped, no final empty line
StripCr(line) ==
  IF Len(line) > 0 /\ line[Len(line)] = "\r"
    THEN SubSeq(line, 1, Len(line) - 1) ELSE line

str_lines(code) ==
  LET ls == LinesWithEndings(code)
  IN  [i \in 1..Len(ls) |->
         IF ls[i][Len(ls[i])] = "\n"
           THEN StripCr(SubSeq(ls[i], 1, Len(ls[i]) - 1))
           ELSE ls[i]]

\* text.replace('\n', "").replace('\r', "")
CleanText(text) == SelectSeq(text, LAMBDA c : c # "\n" /\ c # "\r")

\* the styles the external highlighter may attach to a range
SyntectStyles ==
  { [bold |-> TRUE,  fg |-> <<192, 197, 206>>],
    [bold |-> FALSE, fg |-> <<0, 10, 255>>] }

\* SyntaxHighlighter::convert_syntect_style_to_theme_color
convert_syntect_style_to_theme_color(style, theme) ==
  LET hex == format_hex(style.fg)
  IN  IF style.bold THEN theme.keyword ELSE ThemeColor_new(hex)

\* SyntaxHighlighter::highlight_with_syntect; the external highlighter is taken
\* to return one range per line, carrying the given style
highlight_with_syntect(code, style, theme) ==
  LET ls == LinesWithEndings(code)
  IN  [i \in 1..Len(ls) |->
        [tokens |->
           IF CleanText(ls[i]) # <<>>
             THEN << [text  |-> CleanText(ls[i]),
                      color |-> convert_syntect_style_to_theme_color(style, theme)] >>
             ELSE <<>>]]

IsWhitespace(c) == c \in {" ", "\t", "\n", "\r", "\f"}

IsDelimiter(c) ==
  c \in {"\"", "'", "(", ")", "{", "}", "[", "]", ";", ",", "."}

IsUppercase(c) == \E i \in 1..26 : UpperLetters[i] = c

IsDigits(s) == s # <<>> /\ \A i \in 1..Len(s) : s[i] \in {"0","1","2","3","4","5","6","7","8","9"}

StripSign(s) == IF Len(s) > 0 /\ s[1] \in {"+", "-"} THEN Tail(s) ELSE s

\* text.parse::<f64>().is_ok() for a token without '.', which the tokenizer
\* never puts into a word
IsF64(text) ==
  LET u == StripSign(text)
  IN  \/ to_lowercase(u) \in { <<"i","n","f">>, <<"n","a","n">>,
                               <<"i","n","f","i","n","i","t","y">> }
      \/ \E k \in 1..Len(u) :
           /\ IsDigits(SubSeq(u, 1, k))
           /\ \/ k = Len(u)
              \/ /\ u[k + 1] \in {"e", "E"}
                 /\ IsDigits(StripSign(SubSeq(u, k + 2, Len(u))))

is_keyword(text) == text \in KeywordTable

is_type(text) == text \in TypeTable

\* SyntaxHighlighter::determine_color_by_pattern
determine_color_by_pattern(text, theme) ==
  IF IsF64(text) THEN theme.number
  ELSE IF is_keyword(text) THEN theme.keyword
  ELSE IF is_type(text) THEN theme.type_color
  ELSE IF (\A i \in 1..Len(text) : IsUppercase(text[i]) \/ text[i] = "_")
          /\ Len(text) > 1 THEN theme.constant
  ELSE theme.foreground

\* the characters of a string
Range(s) == {s[k] : k \in 1..Len(s)}

\* first position j >= i (0-based) whose character is in stops, or the length
FirstStop(chars, i, stops) ==
  CHOOSE j \in i..Len(chars) :
    /\ j = Len(chars) \/ chars[j + 1] \in stops
    /\ \A k \in i..(j - 1) : chars[k + 1] \notin stops

\* the inner loop of the string branch with an escape that always skips two
\* characters
RECURSIVE ScanString_unguarded(_, _, _)
ScanString_unguarded(chars, i, quote) ==
  IF i < Len(chars) /\ chars[i + 1] # quote
    THEN IF chars[i + 1] = "\\"
           THEN ScanString_unguarded(chars, i + 2, quote)
           ELSE ScanString_unguarded(chars, i + 1, quote)
    ELSE i

\* the inner loop of the string branch: runs to the closing quote, an escape
\* skips two characters when a second one exists
RECURSIVE ScanString(_, _, _)
ScanString(chars, i, quote) ==
  IF i < Len(chars) /\ chars[i + 1] # quote
    THEN IF chars[i + 1] = "\\" /\ i + 1 < Len(chars)
           THEN ScanString(chars, i + 2, quote)
           ELSE ScanString(chars, i + 1, quote)
    ELSE i

\* one iteration of the `while i < chars.len()` loop of highlight_line, for
\* i < Len(chars): the position after it, the tokens pushed, and whether the
\* loop was left by `break`
HighlightStep(chars, i, theme) ==
  LET ws  == FirstStop(chars, i, {d \in Range(chars) : ~IsWhitespace(d)})
      c   == chars[i + 1]
      q   == ScanString(chars, i + 1, c)
      qe  == IF q < Len(chars) THEN q + 1 ELSE q
      w   == FirstStop(chars, i, {d \in Range(chars) : IsWhitespace(d) \/ IsDelimiter(d)})
  IN  IF ws > i
        THEN [i |-> ws, brk |-> FALSE,
              tokens |-> << [text |-> SubSeq(chars, i + 1, ws), color |-> theme.foreground] >>]
      ELSE IF c = "\"" \/ c = "'"
        THEN [i |-> qe, brk |-> FALSE,
              tokens |-> << [text |-> SubSeq(chars, i + 1, qe), color |-> theme.string] >>]
      ELSE IF i + 1 < Len(chars) /\ c = "/" /\ chars[i + 2] = "/"
        THEN [i |-> i, brk |-> TRUE,
              tokens |-> << [text |-> SubSeq(chars, i + 1, Len(chars)), color |-> theme.comment] >>]
      ELSE IF w > i
        THEN [i |-> w, brk |-> FALSE,
              tokens |-> << [text  |-> SubSeq(chars, i + 1, w),
                             color |-> determine_color_by_pattern(SubSeq(chars, i + 1, w), theme)] >>]
      ELSE [i |-> i + 1, brk |-> FALSE,
            tokens |-> << [text |-> <<c>>, color |-> theme.punctuation] >>]

RECURSIVE HighlightLoop(_, _, _, _)
HighlightLoop(chars, i, tokens, theme) ==
  IF i < Len(chars)
    THEN LET s == HighlightStep(chars, i, theme)
         IN  IF s.brk THEN tokens \o s.tokens
             ELSE HighlightLoop(chars, s.i, tokens \o s.tokens, theme)
    ELSE tokens

\* SyntaxHighlighter::highlight_line
highlight_line(line, theme) == [tokens |-> HighlightLoop(line, 0, <<>>, theme)]

\* SyntaxHighlighter::highlight_with_patterns
highlight_with_patterns(code, theme) ==
  LET ls == str_lines(code)
  IN  [i \in 1..Len(ls) |-> highlight_line(ls[i], theme)]

\* SyntaxHighlighter::highlight_code; the bundled theme set always holds
\* "base16-ocean.dark"
highlight_code(code, language, style, theme) ==
  IF find_syntax_by_language(language).some
    THEN highlight_with_syntect(code, style, theme)
    ELSE highlight_with_patterns(code, theme)

\* --------------------------------------------------------------- font.rs
\* the search order of load_font_with_fallback
font_paths ==
  << "./fonts/jet-brains-mono-regular.ttf",
     "./fonts/fira-code-regular.ttf",
     "/System/Library/Fonts/Monaco.ttf",
     "/System/Library/Fonts/Menlo.ttc",
     "/usr/share/fonts/truetype/dejavu/DejaVuSansMono.ttf",
     "/Windows/Fonts/consola.ttf" >>

\* a loader that takes whatever file it finds first
FontUsable_exists(files, i) == files[i] # "absent"

\* a path of the file system is "absent", exists but is "unreadable", holds a
\* "corrupt" font (Font::from_bytes fails) or an "ok" one
FontUsable(files, i) == files[i] = "ok"

\* load_font_with_fallback(preferred_size): the first path that exists, reads
\* and parses; create_fallback_font always fails
load_font_with_fallback(env, preferred_size) ==
  IF \E i \in 1..Len(font_paths) : FontUsable(env.files, i)
    THEN [kind |-> "ok",
          v |-> [font |-> CHOOSE i \in 1..Len(font_paths) :
                            /\ FontUsable(env.files, i)
                            /\ \A j \in 1..(i - 1) : ~FontUsable(env.files, j),
                 size |-> preferred_size,
                 metrics |-> env.metrics]]
    ELSE [kind |-> "err", err |-> "NoFont"]

\* FontManager::get_line_height; size is in sixteenths, the font's
\* ascent - descent is metrics.v hundredths of the size
get_line_height(fm) ==
  IF fm.metrics.some
    THEN CeilAsU32(Min(fm.metrics.v * fm.size, 95 * fm.size), 1600)
    ELSE CeilAsU32(95 * fm.size, 1600)

\* ------------------------------------------------------------- config.rs
Fields ==
  { "width", "height", "padding", "line_height", "font_size", "font_family",
    "background_color", "window_controls", "window_title", "line_numbers",
    "drop_shadow", "border_radius", "export_size", "panel_padding",
    "gradient_backdrop", "noise_effect" }

\* the Option<_> fields of RenderConfig: serde fills them with None when absent
OptionFields == { "height", "window_title" }

\* impl Default for RenderConfig (f32 fields in quarters)
DefaultConfig ==
  [ width |-> 1200, height |-> None, padding |-> 64, line_height |-> 5,
    font_size |-> 72, font_family |-> "Fira Code",
    background_color |-> "#1e1e1e", window_controls |-> TRUE,
    window_title |-> None, line_numbers |-> FALSE, drop_shadow |-> TRUE,
    border_radius |-> 32, export_size |-> 8, panel_padding |-> 80,
    gradient_backdrop |-> TRUE, noise_effect |-> TRUE ]

get_actual_width(c) == AsU32(c.width * c.export_size, 4)

get_actual_height(c, total_height) ==
  AsU32((IF c.height.some THEN c.height.v ELSE total_height) * c.export_size, 4)

get_scaled_padding(c) == AsU32(c.padding * c.export_size, 4)

\* in sixteenths
get_scaled_font_size(c) == c.font_size * c.export_size

\* a panel padding that skips the export scale
get_scaled_panel_padding_unscaled(c) == c.panel_padding

get_scaled_panel_padding(c) == AsU32(c.panel_padding * c.export_size, 4)

\* serde_json::from_str::<RenderConfig>: the derive carries no
\* #[serde(default)], so every non-Option field is required; unknown keys are
\* ignored
serde_from_str(doc) ==
  IF doc.kind # "object" THEN [kind |-> "err", err |-> "InvalidJson"]
  ELSE IF (Fields \ OptionFields) \ doc.present # {}
    THEN [kind |-> "err", err |-> "InvalidJson"]
  ELSE [kind |-> "ok",
        v |-> [f \in Fields |-> IF f \in doc.present THEN doc.vals[f] ELSE None]]

\* ------------------------------------------------------------ safe_ffi.rs
\* a *const c_char: null, a C string that is not UTF-8 ("bytes"), or a C
\* string holding s
NullPtr == [tag |-> "null"]

BytesPtr == [tag |-> "bytes"]

StrPtr(s) == [tag |-> "str", s |-> s]

\* a conversion that omits the null test and hands any pointer to CStr::from_ptr
safe_cstr_to_string_unchecked(ptr) ==
  IF ptr.tag = "str"
    THEN [kind |-> "ok", v |-> ptr.s, deref |-> TRUE]
    ELSE [kind |-> "err", err |-> "InvalidUtf8", deref |-> TRUE]

\* safe_cstr_to_string: deref tells whether CStr::from_ptr ran on the pointer
safe_cstr_to_string(ptr) ==
  IF ptr.tag = "null"
    THEN [kind |-> "err", err |-> "NullPointer", deref |-> FALSE]
  ELSE IF ptr.tag = "bytes"
    THEN [kind |-> "err", err |-> "InvalidUtf8", deref |-> TRUE]
  ELSE [kind |-> "ok", v |-> ptr.s, deref |-> TRUE]

\* safe_string_to_cstr: CString::new fails on an interior NUL byte
safe_string_to_cstr(s) ==
  IF s.has_nul THEN NullPtr ELSE [tag |-> "cstr", s |-> s]

\* a wrapper that hands an error back as a string
safe_ffi_operation_text(outcome) ==
  IF outcome.kind = "ok" THEN safe_string_to_cstr(outcome.v)
  ELSE IF outcome.kind = "err"
    THEN safe_string_to_cstr([prefix |-> outcome.err, has_nul |-> FALSE])
  ELSE NullPtr

\* the match of safe_ffi_operation on the outcome of catch_unwind(operation)
safe_ffi_operation(outcome) ==
  IF outcome.kind = "ok" THEN safe_string_to_cstr(outcome.v)
  ELSE IF outcome.kind = "err" THEN NullPtr
  ELSE NullPtr

\* -------------------------------------------------------------- the inputs
Str_dracula == <<"d", "r", "a", "c", "u", "l", "a">>

Str_nord == <<"n", "o", "r", "d">>

Str_rust == <<"r", "u", "s", "t">>

CodeAlphabet == {"a", "\n"}

CodeInputs == {NullPtr, BytesPtr} \cup {StrPtr(s) : s \in SeqsUpTo(CodeAlphabet, MaxCodeLen)}

LanguageInputs ==
  {NullPtr, BytesPtr} \cup
  {StrPtr(s) : s \in {Str_rust, <<"R", "S">>, <<"t", "s">>, <<"z", "z">>}}

AllUpper(name) ==
  [i \in 1..Len(name) |->
     IF \E k \in 1..26 : LowerLetters[k] = name[i]
       THEN UpperLetters[CHOOSE k \in 1..26 : LowerLetters[k] = name[i]]
       ELSE name[i]]

\* every upper/lower-case spelling of a name
CaseVariants(name) ==
  {t \in [1..Len(name) -> {name[i] : i \in 1..Len(name)} \cup
                          {AllUpper(name)[i] : i \in 1..Len(name)}] :
     \A i \in 1..Len(name) : ToLowerChar(t[i]) = name[i]}

Capitalized(name) == <<AllUpper(name)[1]>> \o Tail(name)

CatalogNames == {get_theme_names[i] : i \in 1..Len(get_theme_names)}

UnknownThemeNames ==
  { <<>>, <<"n", "o", "r">>, Str_nord \o <<"d">>, Str_dracula \o <<" ">>,
    <<"b", "o", "g", "u", "s">>, <<"d", "e", "f", "a", "u", "l", "t">>,
    <<"s", "o", "l", "a", "r", "i", "z", "e", "d", "_", "d", "a", "r", "k">>,
    <<"D", "r", "a", "c", "u", "l", "a", "!">> }

ThemeNames ==
  CatalogNames \cup {AllUpper(n) : n \in CatalogNames}
               \cup {Capitalized(n) : n \in CatalogNames}
               \cup CaseVariants(Str_nord) \cup UnknownThemeNames

ThemeInputs == {NullPtr, BytesPtr} \cup {StrPtr(s) : s \in ThemeNames}

CoarseThemeInputs ==
  {NullPtr, BytesPtr, StrPtr(Str_dracula), StrPtr(AllUpper(Str_nord)),
   StrPtr(<<"b", "o", "g", "u", "s">>)}

\* complete value assignments a configuration document is cut from
PlainConfig ==
  [ width |-> 4, height |-> Some(3), padding |-> 0, line_height |-> 0,
    font_size |-> 48, font_family |-> "monospace",
    background_color |-> "#000000", window_controls |-> FALSE,
    window_title |-> Some("t"), line_numbers |-> TRUE, drop_shadow |-> FALSE,
    border_radius |-> 0, export_size |-> 4, panel_padding |-> 0,
    gradient_backdrop |-> FALSE, noise_effect |-> FALSE ]

CompactConfig ==
  [ width |-> 100, height |-> None, padding |-> 8, line_height |-> 4,
    font_size |-> 40, font_family |-> "Fira Code",
    background_color |-> "#1e1e1e", window_controls |-> TRUE,
    window_title |-> None, line_numbers |-> TRUE, drop_shadow |-> TRUE,
    border_radius |-> 16, export_size |-> 2, panel_padding |-> 10,
    gradient_backdrop |-> TRUE, noise_effect |-> FALSE ]

ConfigPresets == {DefaultConfig, PlainConfig, CompactConfig}

\* a JSON text: not JSON at all, JSON of the wrong shape, or an object that
\* gives the fields `present` the values of `vals` (and maybe unknown keys)
JsonDoc(kind, present, vals, extra) ==
  [kind |-> kind, present |-> present, vals |-> vals, extra |-> extra]

OmittedSets == {om \in SUBSET Fields : Cardinality(om) <= MaxOmitted}

ConfigDocs ==
  { JsonDoc("object", Fields \ om, p, e) :
      om \in OmittedSets, p \in ConfigPresets, e \in BOOLEAN }
  \cup { JsonDoc("object", {}, DefaultConfig, FALSE),
         JsonDoc("syntax_error", {}, DefaultConfig, FALSE),
         JsonDoc("type_error", Fields, DefaultConfig, FALSE) }

ConfigInputs == {NullPtr, BytesPtr} \cup {StrPtr(d) : d \in ConfigDocs}

CoarseConfigInputs ==
  { NullPtr, BytesPtr,
    StrPtr(JsonDoc("syntax_error", {}, DefaultConfig, FALSE)),
    StrPtr(JsonDoc("object", {}, DefaultConfig, FALSE)),
    StrPtr(JsonDoc("object", Fields, DefaultConfig, FALSE)),
    StrPtr(JsonDoc("object", Fields \ {"height"}, PlainConfig, TRUE)) }

Call(c, l, t, j) == [code |-> c, language |-> l, theme |-> t, config_json |-> j]

\* the calls explored: every combination of the coarse argument sets, every
\* theme name with otherwise plain arguments, every configuration document
\* with otherwise plain arguments
Calls ==
  { Call(c, l, t, j) : c \in CodeInputs, l \in LanguageInputs,
                       t \in CoarseThemeInputs, j \in CoarseConfigInputs }
  \cup { Call(StrPtr(<<"a">>), StrPtr(Str_rust), t, j) :
           t \in ThemeInputs,
           j \in {NullPtr, StrPtr(JsonDoc("object", Fields, PlainConfig, FALSE))} }
  \cup { Call(c, l, NullPtr, j) :
           c \in {StrPtr(<<>>), StrPtr(<<"a", "\n", "a">>)},
           l \in {StrPtr(Str_rust), StrPtr(<<"z", "z">>)},
           j \in ConfigInputs }

\* the font files found on the search path and the metrics of the font loaded
FontEnv(files, metrics) == [files |-> files, metrics |-> metrics]

FontEnvs ==
  { FontEnv(<<"unreadable", "corrupt", "absent", "absent", "absent", "absent">>, None),
    FontEnv(<<"ok", "ok", "absent", "absent", "absent", "absent">>, Some(132)),
    FontEnv(<<"absent", "corrupt", "absent", "absent", "ok", "absent">>, None),
    FontEnv(<<"absent", "ok", "absent", "absent", "absent", "absent">>, Some(80)) }

\* ------------------------------------------------------------------ state
VARIABLES
  args,               \* the four pointers passed to generate_snippet_image
  font_env,           \* the font files of the machine
  pc,                 \* the statement the call is at
  code_str,           \* Option<String>: locals of the closure
  language_str,
  theme_str,
  config,             \* Option<RenderConfig>
  renderer,           \* Option<SnippetRenderer>
  highlighted_lines,  \* Vec<HighlightedLine>
  layout,             \* the geometry computed by render_snippet
  image,              \* the canvas: allocations, size, whether it is alive
  log,                \* allocation, drawing passes and encoding, in order
  outcome,            \* what catch_unwind(operation) returned
  result,             \* Option<*mut c_char>: the pointer handed back
  heap,               \* C strings owned by the caller; from_raw calls so far
  derefs,             \* the arguments CStr::from_ptr was applied to
  hex_in,             \* input of the color conversions
  hex_out,            \* their results
  call,               \* a drawing routine invoked on its own: name and arguments
  ret,                \* what it returned and did to the surface
  world,              \* what the call took from outside its arguments: the
                      \* thread_rng draws, the bundled syntax assets, the
                      \* encoder's verdict, a fault
  previous            \* the preceding call of the same caller, if any

vars ==
  << args, font_env, pc, code_str, language_str, theme_str, config, renderer,
     highlighted_lines, layout, image, log, outcome, result, heap, derefs,
     hex_in, hex_out, call, ret, world, previous >>

locals == << code_str, language_str, theme_str, config, renderer,
             highlighted_lines, layout >>

hexvars == << hex_in, hex_out >>

drawvars == << call, ret >>

repeatvars == << world, previous >>

\* no drawing routine is being looked at
NoCall == [fn |-> "none"]

NoLayout ==
  [ line_count |-> 0, line_height |-> 0, content_height |-> 0,
    panel_height |-> 0, final_width |-> 0, final_height |-> 0 ]

NoImage ==
  [allocs |-> 0, width |-> 0, height |-> 0, alive |-> FALSE, backdrop |-> None]

\* nothing taken from outside yet
NoWorld == [rng |-> None, style |-> None, encoder |-> None, fault |-> None]

Running == [kind |-> "running"]

Ok(v) == [kind |-> "ok", v |-> v]

Err(e) == [kind |-> "err", err |-> e]

Panicked == [kind |-> "panic"]

Init ==
  /\ args \in Calls
  /\ font_env \in FontEnvs
  /\ pc = "conv_code"
  /\ code_str = None /\ language_str = None /\ theme_str = None
  /\ config = None /\ renderer = None
  /\ highlighted_lines = <<>>
  /\ layout = NoLayout
  /\ image = NoImage
  /\ log = <<>>
  /\ outcome = Running
  /\ result = None
  /\ heap = [live |-> {}, from_raw |-> 0]
  /\ derefs = {}
  /\ hex_in = <<>> /\ hex_out = None
  /\ call = NoCall /\ ret = None
  /\ world = NoWorld /\ previous = None

\* `?` on an Err: the closure returns it, its locals are dropped
Fail(e) ==
  /\ outcome' = Err(e)
  /\ pc' = "closure_done"
  /\ image' = [image EXCEPT !.alive = FALSE]

\* ---------------------------------------------- safe_generate_snippet_image
\* let code_str = safe_cstr_to_string(code)?;
ConvCode ==
  /\ pc = "conv_code"
  /\ LET r == safe_cstr_to_string(args.code)
     IN  /\ derefs' = IF r.deref THEN derefs \cup {"code"} ELSE derefs
         /\ IF r.kind = "ok"
              THEN /\ code_str' = Some(r.v)
                   /\ pc' = "conv_language"
                   /\ UNCHANGED << outcome, image >>
              ELSE /\ Fail(r.err)
                   /\ UNCHANGED code_str
  /\ UNCHANGED << args, font_env, language_str, theme_str, config, renderer,
                  highlighted_lines, layout, log, result, heap, hexvars, drawvars, repeatvars >>

\* let language_str = safe_cstr_to_string(language)?;
ConvLanguage ==
  /\ pc = "conv_language"
  /\ LET r == safe_cstr_to_string(args.language)
     IN  /\ derefs' = IF r.deref THEN derefs \cup {"language"} ELSE derefs
         /\ IF r.kind = "ok"
              THEN /\ language_str' = Some(r.v)
                   /\ pc' = "conv_theme"
                   /\ UNCHANGED << outcome, image >>
              ELSE /\ Fail(r.err)
                   /\ UNCHANGED language_str
  /\ UNCHANGED << args, font_env, code_str, theme_str, config, renderer,
                  highlighted_lines, layout, log, result, heap, hexvars, drawvars, repeatvars >>

\* let theme_str = if theme.is_null() { "dracula" } else { safe_cstr_to_string(theme)? };
ConvTheme ==
  /\ pc = "conv_theme"
  /\ LET r == IF args.theme.tag = "null"
                THEN [kind |-> "ok", v |-> Str_dracula, deref |-> FALSE]
                ELSE safe_cstr_to_string(args.theme)
     IN  /\ derefs' = IF r.deref THEN derefs \cup {"theme"} ELSE derefs
         /\ IF r.kind = "ok"
              THEN /\ theme_str' = Some(r.v)
                   /\ pc' = "parse_config"
                   /\ UNCHANGED << outcome, image >>
              ELSE /\ Fail(r.err)
                   /\ UNCHANGED theme_str
  /\ UNCHANGED << args, font_env, code_str, language_str, config, renderer,
                  highlighted_lines, layout, log, result, heap, hexvars, drawvars, repeatvars >>

\* let config = if config_json.is_null() { RenderConfig::default() }
\*              else { serde_json::from_str(&safe_cstr_to_string(config_json)?)? };
ParseConfigResult(ptr) ==
  IF ptr.tag = "null"
    THEN [kind |-> "ok", v |-> DefaultConfig, deref |-> FALSE]
  ELSE IF safe_cstr_to_string(ptr).kind # "ok"
    THEN safe_cstr_to_string(ptr)
  ELSE IF serde_from_str(safe_cstr_to_string(ptr).v).kind # "ok"
    THEN [kind |-> "err", err |-> "InvalidJson", deref |-> TRUE]
  ELSE [kind |-> "ok", v |-> serde_from_str(safe_cstr_to_string(ptr).v).v,
        deref |-> TRUE]

ParseConfig ==
  /\ pc = "parse_config"
  /\ LET r == ParseConfigResult(args.config_json)
     IN  /\ derefs' = IF r.deref THEN derefs \cup {"config_json"} ELSE derefs
         /\ IF r.kind = "ok"
              THEN /\ config' = Some(r.v)
                   /\ pc' = "new_renderer"
                   /\ UNCHANGED << outcome, image >>
              ELSE /\ Fail(r.err)
                   /\ UNCHANGED config
  /\ UNCHANGED << args, font_env, code_str, language_str, theme_str, renderer,
                  highlighted_lines, layout, log, result, heap, hexvars, drawvars, repeatvars >>

\* ------------------------------------------------------------ renderer.rs
\* SnippetRenderer::new: the theme lookup, then the font
SnippetRenderer_new(theme_name, cfg, env) ==
  LET t == get_theme(theme_name)
      f == load_font_with_fallback(env, get_scaled_font_size(cfg))
  IN  IF ~t.some THEN Err("UnknownTheme")
      ELSE IF f.kind # "ok" THEN Err(f.err)
      ELSE Ok([theme |-> t.v, config |-> cfg, font_manager |-> f.v])

\* let renderer = SnippetRenderer::new(&theme_str, config)?;
NewRenderer ==
  /\ pc = "new_renderer"
  /\ LET r == SnippetRenderer_new(theme_str.v, config.v, font_env)
     IN  IF r.kind = "ok"
           THEN /\ renderer' = Some(r.v)
                /\ pc' = "highlight"
                /\ UNCHANGED << outcome, image >>
           ELSE /\ Fail(r.err)
                /\ UNCHANGED renderer
  /\ UNCHANGED << args, font_env, code_str, language_str, theme_str, config,
                  highlighted_lines, layout, log, result, heap, derefs, hexvars, drawvars, repeatvars >>

\* ------------------------------------------- SnippetRenderer::render_snippet
\* let highlighted_lines = self.highlighter.highlight_code(code, language, &self.theme);
Highlight ==
  /\ pc = "highlight"
  /\ \E style \in SyntectStyles :
       /\ highlighted_lines' =
            highlight_code(code_str.v, language_str.v, style, renderer.v.theme)
       /\ world' = [world EXCEPT !.style = Some(style)]
  /\ pc' = "layout"
  /\ UNCHANGED << args, font_env, code_str, language_str, theme_str, config,
                  renderer, layout, image, log, outcome, result, heap, derefs,
                  hexvars, drawvars, previous >>

\* a geometry whose panel leaves the chrome bar out of its height
ComputeLayout_without_chrome(r, line_count) ==
  LET line_height ==
        AsU32(get_line_height(r.font_manager) * r.config.line_height, 4)
      content_height ==
        IF line_count > 0 THEN line_count * line_height ELSE line_height
      panel_height == content_height + (r.config.padding * 2)
  IN  [ line_count |-> line_count,
        line_height |-> line_height,
        content_height |-> content_height,
        panel_height |-> panel_height,
        final_width |->
          get_actual_width(r.config) + (get_scaled_panel_padding(r.config) * 2),
        final_height |->
          get_actual_height(r.config, panel_height)
            + (get_scaled_panel_padding(r.config) * 2) ]

\* the geometry of render_snippet: line advance, content, panel and image size
ComputeLayout(r, line_count) ==
  LET base_line_height == get_line_height(r.font_manager)
      line_height == AsU32(base_line_height * r.config.line_height, 4)
      padding == r.config.padding
      window_controls_height == IF r.config.window_controls THEN 40 ELSE 0
      content_height ==
        IF line_count > 0 THEN line_count * line_height ELSE line_height
      panel_height == content_height + (padding * 2) + window_controls_height
  IN  [ line_count |-> line_count,
        line_height |-> line_height,
        content_height |-> content_height,
        panel_height |-> panel_height,
        final_width |->
          get_actual_width(r.config) + (get_scaled_panel_padding(r.config) * 2),
        final_height |->
          get_actual_height(r.config, panel_height)
            + (get_scaled_panel_padding(r.config) * 2) ]

Layout ==
  /\ pc = "layout"
  /\ layout' = ComputeLayout(renderer.v, Len(highlighted_lines))
  /\ pc' = "alloc"
  /\ UNCHANGED << args, font_env, code_str, language_str, theme_str, config,
                  renderer, highlighted_lines, image, log, outcome, result,
                  heap, derefs, hexvars, drawvars, repeatvars >>

\* let mut image = ImageBuffer::new(final_width, final_height);
Alloc ==
  /\ pc = "alloc"
  /\ image' = [allocs |-> image.allocs + 1, width |-> layout.final_width,
               height |-> layout.final_height, alive |-> TRUE,
               backdrop |-> None]
  /\ log' = Append(log, "alloc")
  /\ pc' = "backdrop"
  /\ UNCHANGED << args, font_env, locals, outcome, result, heap, derefs, hexvars, drawvars, repeatvars >>

\* a color conversion followed by `?`: the pass goes on, or the closure
\* returns the error, or the conversion panicked
FromFailure(kind, event) ==
  IF kind = "ok" THEN Ok(event)
  ELSE IF kind = "err" THEN Err("InvalidHex")
  ELSE Panicked

\* the backdrop: the random gradient, or the theme background after
\* rgba_from_hex(&self.theme.background.hex)?
BackdropResult(r) ==
  IF r.config.gradient_backdrop THEN Ok("gradient")
  ELSE FromFailure(rgba_from_hex(r.theme.background.hex).kind, "solid")

\* what a step of the closure does with the result of the call it makes
Step(res, event, next) ==
  IF res.kind = "ok"
    THEN /\ log' = Append(log, event)
         /\ pc' = next
         /\ UNCHANGED << outcome, image >>
    ELSE /\ outcome' = res
         /\ pc' = "closure_done"
         /\ image' = [image EXCEPT !.alive = FALSE]
         /\ UNCHANGED log

\* the values thread_rng can hand to draw_gradient_backdrop: the two colors,
\* the gradient type and the noise of every pixel, as one draw
GradientSeeds == {0, 1}

\* a backdrop that takes its colors from the random source whatever the
\* configuration says
Painted_always_random(r, img, seed) ==
  IF img.width > 0 /\ img.height > 0
    THEN [kind |-> "gradient", seed |-> seed, noise |-> r.config.noise_effect]
    ELSE [kind |-> "empty"]

\* what the backdrop pass leaves on the canvas: for y in 0..height, for x in
\* 0..width put_pixel(the gradient of the draw), or every pixel the theme
\* background
Painted(r, img, seed) ==
  IF img.width = 0 \/ img.height = 0 THEN [kind |-> "empty"]
  ELSE IF r.config.gradient_backdrop
    THEN [kind |-> "gradient", seed |-> seed, noise |-> r.config.noise_effect]
  ELSE [kind |-> "solid", color |-> r.theme.background.hex]

\* rand::thread_rng() is taken only by draw_gradient_backdrop
RngUse(r, seed) == IF r.config.gradient_backdrop THEN Some(seed) ELSE None

DrawBackdrop ==
  /\ pc = "backdrop"
  /\ \E seed \in GradientSeeds :
       LET res == BackdropResult(renderer.v)
       IN  /\ world' = [world EXCEPT !.rng = RngUse(renderer.v, seed)]
           /\ IF res.kind = "ok"
                THEN /\ log' = Append(log, "backdrop")
                     /\ pc' = "panel"
                     /\ image' = [image EXCEPT
                                    !.backdrop = Some(Painted(renderer.v, image, seed))]
                     /\ UNCHANGED outcome
                ELSE /\ outcome' = res
                     /\ pc' = "closure_done"
                     /\ image' = [image EXCEPT !.alive = FALSE]
                     /\ UNCHANGED log
  /\ UNCHANGED << args, font_env, locals, result, heap, derefs, hexvars, drawvars,
                  previous >>

\* let panel_bg_color = rgba_from_hex(&self.theme.background.hex)?;
\* self.draw_rounded_rect(...)?  (draw_rounded_rect itself never fails)
PanelResult(r) ==
  FromFailure(rgba_from_hex(r.theme.background.hex).kind, "panel")

\* a renderer that draws the window frame whatever the configuration says
AfterPanel_always_chrome(r) == "chrome"

\* the pass that follows the panel background
AfterPanel(r) == IF r.config.window_controls THEN "chrome" ELSE "text"

DrawPanel ==
  /\ pc = "panel"
  /\ Step(PanelResult(renderer.v), "panel", AfterPanel(renderer.v))
  /\ UNCHANGED << args, font_env, locals, result, heap, derefs, hexvars, drawvars, repeatvars >>

\* the fixed colors of the three window controls
ControlColors ==
  << <<"#", "f", "f", "5", "f", "5", "6">>,
     <<"#", "f", "f", "b", "d", "2", "e">>,
     <<"#", "2", "7", "c", "a", "3", "f">> >>

\* the first conversion of a list of hex strings that does not give a color
FirstNotOk(kinds) ==
  IF \A i \in 1..Len(kinds) : kinds[i] = "ok" THEN "ok"
  ELSE kinds[CHOOSE i \in 1..Len(kinds) :
         kinds[i] # "ok" /\ \A j \in 1..(i - 1) : kinds[j] = "ok"]

FirstFailure(hexes) ==
  FirstNotOk([i \in 1..Len(hexes) |-> rgba_from_hex(hexes[i]).kind])

\* draw_window_frame: darken_color(background)?, the title bar, then
\* draw_circle three times, each after rgba_from_hex(color_hex)?
WindowFrameResult(r) ==
  FromFailure(FirstFailure(<<r.theme.background.hex>> \o ControlColors), "chrome")

DrawWindowFrame ==
  /\ pc = "chrome"
  /\ Step(WindowFrameResult(renderer.v), "chrome", "text")
  /\ UNCHANGED << args, font_env, locals, result, heap, derefs, hexvars, drawvars, repeatvars >>

\* the hex strings draw_code_content converts, in the order of its loops
RECURSIVE TextColors(_, _)
TextColors(r, lines) ==
  IF lines = <<>> THEN <<>>
  ELSE (IF r.config.line_numbers THEN <<r.theme.comment.hex>> ELSE <<>>)
       \o [i \in 1..Len(lines[1].tokens) |-> lines[1].tokens[i].color.hex]
       \o TextColors(r, Tail(lines))

\* draw_code_content
CodeContentResult(r, lines) ==
  FromFailure(FirstFailure(TextColors(r, lines)), "text")

DrawCodeContent ==
  /\ pc = "text"
  /\ Step(CodeContentResult(renderer.v, highlighted_lines), "text", "encode")
  /\ UNCHANGED << args, font_env, locals, result, heap, derefs, hexvars, drawvars, repeatvars >>

\* the passes a finished drawing went through
ExpectedPasses(cfg) ==
  <<"backdrop", "panel">>
    \o (IF cfg.window_controls THEN <<"chrome">> ELSE <<>>) \o <<"text">>

IsPass(e) == e \in {"backdrop", "panel", "chrome", "text"}

PassesOf(l) == SelectSeq(l, IsPass)

\* image_to_png_bytes(&image)?, base64, format!("data:image/png;base64,{}"):
\* the string carries the canvas as it is when the encoder reads it
EncodeImage(img, l) ==
  [ prefix |-> "data:image/png;base64,", width |-> img.width,
    height |-> img.height, backdrop |-> img.backdrop, passes |-> PassesOf(l),
    has_nul |-> FALSE ]

\* the PNG encoder is an external collaborator and may refuse the image
Encode ==
  /\ pc = "encode"
  /\ \E encoder_ok \in BOOLEAN :
       /\ outcome' = IF encoder_ok THEN Ok(EncodeImage(image, log))
                                   ELSE Err("Encoding")
       /\ world' = [world EXCEPT !.encoder = Some(encoder_ok)]
  /\ log' = Append(log, "encode")
  /\ pc' = "closure_done"
  /\ image' = [image EXCEPT !.alive = FALSE]
  /\ UNCHANGED << args, font_env, locals, result, heap, derefs, hexvars, drawvars,
                  previous >>

\* a runtime fault inside the closure (an arithmetic overflow of a checked
\* build, a fault of a library): the stack unwinds to catch_unwind
ClosurePcs ==
  { "conv_code", "conv_language", "conv_theme", "parse_config", "new_renderer",
    "highlight", "layout", "alloc", "backdrop", "panel", "chrome", "text",
    "encode" }

Panic ==
  /\ pc \in ClosurePcs
  /\ outcome' = Panicked
  /\ pc' = "closure_done"
  /\ image' = [image EXCEPT !.alive = FALSE]
  /\ world' = [world EXCEPT !.fault = Some(pc)]
  /\ UNCHANGED << args, font_env, locals, log, result, heap, derefs, hexvars, drawvars,
                  previous >>

\* safe_ffi_operation: the match on the result of catch_unwind
Return ==
  /\ pc = "closure_done"
  /\ result' = Some(safe_ffi_operation(outcome))
  /\ heap' = IF safe_ffi_operation(outcome).tag = "null" THEN heap
             ELSE [heap EXCEPT !.live = heap.live \cup {safe_ffi_operation(outcome)}]
  /\ pc' = "returned"
  /\ UNCHANGED << args, font_env, locals, image, log, outcome, derefs, hexvars, drawvars, repeatvars >>

\* safe_free_string(s): nothing for null, else CString::from_raw and drop
safe_free_string(h, s) ==
  IF s.tag = "null" THEN h
  ELSE [live |-> h.live \ {s}, from_raw |-> h.from_raw + 1]

\* the caller hands the pointer it received to free_string
FreeString ==
  /\ pc = "returned"
  /\ heap' = safe_free_string(heap, result.v)
  /\ pc' = "freed"
  /\ UNCHANGED << args, font_env, locals, image, log, outcome, result, derefs,
                  hexvars, drawvars, repeatvars >>

Next ==
  \/ ConvCode \/ ConvLanguage \/ ConvTheme \/ ParseConfig \/ NewRenderer
  \/ Highlight \/ Layout \/ Alloc \/ DrawBackdrop \/ DrawPanel
  \/ DrawWindowFrame \/ DrawCodeContent \/ Encode \/ Panic \/ Return
  \/ FreeString

Spec == Init /\ [][Next]_vars

\* ------------------------------------------------- the color conversions
\* characters of the hex inputs: a digit, an upper-case digit, a sign, and a
\* two-byte character
HexAlphabet == {"0", "F", "+", WideChar}

Hashes(n) == [i \in 1..n |-> "#"]

HexInputs ==
  { Hashes(n) \o body : n \in 0..MaxHashes, body \in SeqsUpTo(HexAlphabet, MaxHexLen) }

InitHex ==
  /\ hex_in \in HexInputs
  /\ hex_out = None
  /\ call = NoCall /\ ret = None
  /\ pc = "hex"
  /\ args = Call(NullPtr, NullPtr, NullPtr, NullPtr)
  /\ font_env = FontEnv(<<"absent", "absent", "absent", "absent", "absent", "absent">>, None)
  /\ code_str = None /\ language_str = None /\ theme_str = None
  /\ config = None /\ renderer = None
  /\ highlighted_lines = <<>>
  /\ layout = NoLayout
  /\ image = NoImage
  /\ world = NoWorld /\ previous = None
  /\ log = <<>>
  /\ outcome = Running
  /\ result = None
  /\ heap = [live |-> {}, from_raw |-> 0]
  /\ derefs = {}

\* what the three conversions make of one string, and the string that
\* format!("#{:02x}{:02x}{:02x}") makes of the triple
Conversions(hex, rgb, panics) ==
  [ hex_to_rgb |-> rgb,
    rgba_from_hex |-> rgba_from_hex(hex),
    theme_color |-> IF panics THEN [kind |-> "panic"]
                    ELSE [kind |-> "ok", v |-> ThemeColor_new(hex)],
    formatted |-> IF rgb.kind = "ok" THEN format_hex(rgb.rgb) ELSE <<>> ]

ConvertHex ==
  /\ pc = "hex"
  /\ hex_out' = Some(Conversions(hex_in, hex_to_rgb(hex_in), ThemeColor_new_panics(hex_in)))
  /\ pc' = "hex_done"
  /\ UNCHANGED << args, font_env, locals, image, log, outcome, result, heap,
                  derefs, hex_in, drawvars, repeatvars >>

NextHex == ConvertHex

SpecHex == InitHex /\ [][NextHex]_vars

\* ------------------------------------------------------- renderer.rs shapes
\* Pixel coordinates and sizes are integers.  The f32 quantities of the shape
\* tests are kept in sixteenths (border_radius and export_size are quarters,
\* their product is in sixteenths); f32 represents them, their differences and
\* the squared distances exactly at the magnitudes used here.
Sixteenths(n) == n * 16

\* a surface of the image crate: width and height in pixels
Surface(w, h) == [width |-> w, height |-> h]

InSurface(img, p) ==
  p[1] >= 0 /\ p[2] >= 0 /\ p[1] < img.width /\ p[2] < img.height

\* image.put_pixel for each pixel of put: it panics on a pixel outside the
\* surface
PutPixels(img, put) ==
  IF \A p \in put : InSurface(img, p)
    THEN [kind |-> "ok", put |-> put]
    ELSE [kind |-> "panic", put |-> put]

\* (width.min(height) as f32 / 2.0).min(scaled_radius), in sixteenths, with
\* scaled_radius = radius * self.config.export_size
max_radius(width, height, radius, export_size) ==
  Min(Min(width, height) * 8, radius * export_size)

DistanceSq(x, y, c) == (x - c[1]) * (x - c[1]) + (y - c[2]) * (y - c[2])

\* the smallest index of a non-empty set of indices: the corner at which the
\* loop returns
FirstIndex(S) == CHOOSE i \in S : \A j \in S : i <= j

\* the condition of the corner loop of is_inside_rounded_rect for corner c
InQuadrant(x, y, width, height, radius, c) ==
  \/ x <= radius /\ y <= radius /\ c[1] = radius /\ c[2] = radius
  \/ x >= width - radius /\ y <= radius /\ c[1] = width - radius /\ c[2] = radius
  \/ x <= radius /\ y >= height - radius /\ c[1] = radius /\ c[2] = height - radius
  \/ /\ x >= width - radius /\ y >= height - radius
     /\ c[1] = width - radius /\ c[2] = height - radius

\* the value the corner loop returns: the circle test of the first corner
\* whose condition holds, false when the loop ends
CornerLoop(x, y, radius, corners, hits) ==
  IF hits = {} THEN FALSE
  ELSE DistanceSq(x, y, corners[FirstIndex(hits)]) <= radius * radius

\* a rectangle that is filled whole
is_inside_rounded_rect_square(x, y, width, height, radius) == TRUE

\* SnippetRenderer::is_inside_rounded_rect, arguments in sixteenths
is_inside_rounded_rect(x, y, width, height, radius) ==
  IF x >= radius /\ x <= width - radius THEN TRUE
  ELSE IF y >= radius /\ y <= height - radius THEN TRUE
  ELSE LET corners == << <<radius, radius>>, <<width - radius, radius>>,
                         <<radius, height - radius>>,
                         <<width - radius, height - radius>> >>
       IN  CornerLoop(x, y, radius, corners,
             {i \in 1..4 : InQuadrant(x, y, width, height, radius, corners[i])})

\* the condition of the corner loop of is_inside_rounded_rect_top_only
InTopQuadrant(x, y, width, radius, c) ==
  \/ x <= radius /\ y <= radius /\ c[1] = radius /\ c[2] = radius
  \/ x >= width - radius /\ y <= radius /\ c[1] = width - radius /\ c[2] = radius

\* a title bar whose four corners are rounded
is_inside_rounded_rect_top_only_all_round(x, y, width, height, radius) ==
  is_inside_rounded_rect(x, y, width, height, radius)

\* SnippetRenderer::is_inside_rounded_rect_top_only, arguments in sixteenths
is_inside_rounded_rect_top_only(x, y, width, height, radius) ==
  IF x >= radius /\ x <= width - radius THEN TRUE
  ELSE IF y >= radius THEN TRUE
  ELSE LET top_corners == << <<radius, radius>>, <<width - radius, radius>> >>
       IN  CornerLoop(x, y, radius, top_corners,
             {i \in 1..2 : InTopQuadrant(x, y, width, radius, top_corners[i])})

\* the pixels of the two loops `for py in 0..height`, `for px in 0..width`
\* that pass the bounds check
RectPixelsInBounds(img, x, y, width, height) ==
  { p \in (0..(width - 1)) \X (0..(height - 1)) :
      ~(x + p[1] < 0 \/ y + p[2] < 0
          \/ x + p[1] >= img.width \/ y + p[2] >= img.height) }

\* SnippetRenderer::draw_rounded_rect: the put_pixel calls it makes
draw_rounded_rect(img, x, y, width, height, radius, export_size) ==
  PutPixels(img,
    { <<x + p[1], y + p[2]>> :
        p \in { q \in RectPixelsInBounds(img, x, y, width, height) :
                  is_inside_rounded_rect(Sixteenths(q[1]), Sixteenths(q[2]),
                    Sixteenths(width), Sixteenths(height),
                    max_radius(width, height, radius, export_size)) } })

\* SnippetRenderer::draw_rounded_rect_top_only
draw_rounded_rect_top_only(img, x, y, width, height, radius, export_size) ==
  PutPixels(img,
    { <<x + p[1], y + p[2]>> :
        p \in { q \in RectPixelsInBounds(img, x, y, width, height) :
                  is_inside_rounded_rect_top_only(Sixteenths(q[1]), Sixteenths(q[2]),
                    Sixteenths(width), Sixteenths(height),
                    max_radius(width, height, radius, export_size)) } })

\* the offsets (dx, dy) of the two loops of draw_circle that pass the disc
\* test and the bounds check
CircleOffsets(img, x, y, radius) ==
  { d \in ((-radius)..radius) \X ((-radius)..radius) :
      /\ d[1] * d[1] + d[2] * d[2] <= radius * radius
      /\ x + d[1] >= 0 /\ y + d[2] >= 0
      /\ x + d[1] < img.width /\ y + d[2] < img.height }

\* a circle drawn without the bounds check
CirclePixels_unclipped(img, x, y, radius) ==
  { <<x + d[1], y + d[2]>> :
      d \in { e \in ((-radius)..radius) \X ((-radius)..radius) :
                e[1] * e[1] + e[2] * e[2] <= radius * radius } }

CirclePixels(img, x, y, radius) ==
  { <<x + d[1], y + d[2]>> : d \in CircleOffsets(img, x, y, radius) }

\* the rest of draw_circle once rgba_from_hex(color_hex)? has been evaluated
CircleResult(img, color, pixels) ==
  IF color.kind = "ok" THEN PutPixels(img, pixels)
  ELSE IF color.kind = "err" THEN [kind |-> "err", put |-> {}]
  ELSE [kind |-> "panic", put |-> {}]

\* SnippetRenderer::draw_circle
draw_circle(img, x, y, radius, color_hex) ==
  CircleResult(img, rgba_from_hex(color_hex), CirclePixels(img, x, y, radius))

\* ---- the shape routines on their own
\* where a shape is put relative to the surface: hanging over the top-left
\* edge, at the origin, reaching past the bottom-right edge
ShapeOffsets == {-2, 0, 3}

\* border_radius values, in quarters: negative, none, 1.0, 1.5, 2.5, 8.0
RadiusInputs == {-4, 0, 4, 6, 10, 32}

\* export_size values, in quarters: 1.0 and 2.0
ExportInputs == {4, 8}

RectCalls ==
  { [ fn |-> f, surface |-> Surface(MaxSide + 1, MaxSide + 1), x |-> x, y |-> y,
      width |-> w, height |-> h, radius |-> r, export_size |-> e,
      color_hex |-> <<>> ] :
      f \in {"draw_rounded_rect", "draw_rounded_rect_top_only"},
      x \in ShapeOffsets, y \in ShapeOffsets,
      w \in 0..MaxSide, h \in 0..MaxSide,
      r \in RadiusInputs, e \in ExportInputs }

CircleCalls ==
  { [ fn |-> "draw_circle", surface |-> Surface(MaxSide + 1, MaxSide + 1),
      x |-> x, y |-> y, width |-> 0, height |-> 0, radius |-> r,
      export_size |-> 4, color_hex |-> c ] :
      x \in (-2)..(MaxSide + 2), y \in (-2)..(MaxSide + 2),
      r \in (-1)..MaxRadius,
      c \in {ControlColors[1], <<"#", "f", "f">>} }

\* the pipeline is not running
Idle ==
  /\ args = Call(NullPtr, NullPtr, NullPtr, NullPtr)
  /\ font_env = FontEnv(<<"absent", "absent", "absent", "absent", "absent", "absent">>, None)
  /\ code_str = None /\ language_str = None /\ theme_str = None
  /\ config = None /\ renderer = None
  /\ highlighted_lines = <<>>
  /\ layout = NoLayout
  /\ image = NoImage
  /\ log = <<>>
  /\ outcome = Running
  /\ result = None
  /\ heap = [live |-> {}, from_raw |-> 0]
  /\ derefs = {}
  /\ hex_in = <<>> /\ hex_out = None
  /\ world = NoWorld /\ previous = None

pipeline == << args, font_env, locals, image, log, outcome, result, heap,
               derefs, hexvars, repeatvars >>

InitShapes ==
  /\ Idle
  /\ call \in RectCalls \cup CircleCalls
  /\ ret = None
  /\ pc = "shape"

DrawRoundedRect ==
  /\ pc = "shape" /\ call.fn = "draw_rounded_rect"
  /\ ret' = Some(draw_rounded_rect(call.surface, call.x, call.y, call.width,
                   call.height, call.radius, call.export_size))
  /\ pc' = "shape_done"
  /\ UNCHANGED << pipeline, call >>

DrawRoundedRectTopOnly ==
  /\ pc = "shape" /\ call.fn = "draw_rounded_rect_top_only"
  /\ ret' = Some(draw_rounded_rect_top_only(call.surface, call.x, call.y,
                   call.width, call.height, call.radius, call.export_size))
  /\ pc' = "shape_done"
  /\ UNCHANGED << pipeline, call >>

DrawCircle ==
  /\ pc = "shape" /\ call.fn = "draw_circle"
  /\ ret' = Some(draw_circle(call.surface, call.x, call.y, call.radius,
                   call.color_hex))
  /\ pc' = "shape_done"
  /\ UNCHANGED << pipeline, call >>

NextShapes == DrawRoundedRect \/ DrawRoundedRectTopOnly \/ DrawCircle

SpecShapes == InitShapes /\ [][NextShapes]_vars

\* ---------------------------------------------------------- f32 arithmetic
\* A non-negative f32 is [m, e] with value m * 2^e, where m = 0 or
\* 2^23 <= m < 2^24.  Every operation below is the IEEE 754 one: the exact
\* result rounded to 24 significant bits, ties to even.
Pow2(n) == 2 ^ n

F32Zero == [m |-> 0, e |-> 0]

F32One == [m |-> Pow2(23), e |-> -23]

\* the number of significant bits of n >= 1
BitLen(n) == CHOOSE k \in 1..31 : n \div Pow2(k - 1) = 1

\* q holds the leading 24 bits of an exact value, rem the s bits dropped below
\* them, sticky whether anything non-zero lies below those
RoundNearestEven(q, rem, s, sticky, e) ==
  LET half == IF s = 0 THEN 0 ELSE Pow2(s - 1)
      up   == /\ s > 0
              /\ \/ rem > half
                 \/ rem = half /\ (sticky \/ q % 2 = 1)
      r    == IF up THEN q + 1 ELSE q
  IN  IF r = Pow2(24) THEN [m |-> Pow2(23), e |-> e + s + 1]
      ELSE [m |-> r, e |-> e + s]

\* the f32 nearest to an exact value in [n * 2^e, (n + 1) * 2^e): equal to
\* n * 2^e unless sticky, which requires n >= 2^25
RoundF32(n, e, sticky) ==
  IF n = 0 THEN F32Zero
  ELSE IF BitLen(n) <= 24
    THEN [m |-> n * Pow2(24 - BitLen(n)), e |-> e - (24 - BitLen(n))]
  ELSE RoundNearestEven(n \div Pow2(BitLen(n) - 24), n % Pow2(BitLen(n) - 24),
                        BitLen(n) - 24, sticky, e)

\* k further quotient bits of a long division by b
RECURSIVE DivBits(_, _, _, _)
DivBits(q, rem, b, k) ==
  IF k = 0 THEN [q |-> q, rem |-> rem]
  ELSE DivBits(2 * q + (IF 2 * rem >= b THEN 1 ELSE 0),
               IF 2 * rem >= b THEN 2 * rem - b ELSE 2 * rem, b, k - 1)

\* the shift that brings a into [b, 2b), for 1 <= a <= b
RECURSIVE ShiftTo(_, _, _)
ShiftTo(a, b, s) == IF a >= b THEN s ELSE ShiftTo(2 * a, b, s + 1)

DivRounded(d, s) == RoundF32(d.q, -25 - s, d.rem # 0)

\* a as f32 / b as f32 for integers 0 <= a <= b, b >= 1, both exact in f32
F32Div(a, b) ==
  IF a = 0 THEN F32Zero
  ELSE DivRounded(DivBits(1, a * Pow2(ShiftTo(a, b, 0)) - b, b, 25), ShiftTo(a, b, 0))

\* 1.0 - r for 0 <= r <= 1: r is shifted to the scale of 2^-26
SubFromOne(small, sticky) ==
  RoundF32(Pow2(26) - small - (IF sticky THEN 1 ELSE 0), -26, sticky)

F32OneMinus(r) ==
  IF r.m = 0 THEN F32One
  ELSE IF -26 - r.e > 27 THEN SubFromOne(0, TRUE)
  ELSE IF r.e >= -26 THEN SubFromOne(r.m * Pow2(r.e + 26), FALSE)
  ELSE SubFromOne(r.m \div Pow2(-26 - r.e), r.m % Pow2(-26 - r.e) # 0)

\* the product c * m of a u8 and a mantissa, rounded: hi = c * (m div 256) and
\* lo = c * (m mod 256) keep every intermediate below 2^31; s is the number of
\* bits the product has beyond 24
MulRounded(hi, lo, s, e) ==
  RoundNearestEven(hi * Pow2(8 - s) + lo \div Pow2(s), lo % Pow2(s), s, FALSE, e)

MulParts(hi, lo, e) ==
  MulRounded(hi, lo, BitLen(hi + lo \div 256) + 8 - 24, e)

\* (c as f32) * f for a u8 c
F32MulU8(c, f) ==
  IF c = 0 \/ f.m = 0 THEN F32Zero
  ELSE MulParts(c * (f.m \div 256), c * (f.m % 256), f.e)

\* big + small for big >= small > 0: the sum on the scale of big.e - 2
AddAligned(big, small, d) ==
  IF d > 27 THEN RoundF32(big.m * 4, big.e - 2, TRUE)
  ELSE RoundF32(big.m * 4 + (small.m * 4) \div Pow2(d), big.e - 2,
                (small.m * 4) % Pow2(d) # 0)

F32Add(a, b) ==
  IF a.m = 0 THEN b
  ELSE IF b.m = 0 THEN a
  ELSE IF a.e >= b.e THEN AddAligned(a, b, a.e - b.e)
  ELSE AddAligned(b, a, b.e - a.e)

\* `as u8` of a non-negative f32: truncation, saturating at 255
F32AsU8(f) ==
  IF f.m = 0 THEN 0
  ELSE IF f.e >= 0 THEN 255
  ELSE IF -f.e >= 24 THEN 0
  ELSE Min(255, f.m \div Pow2(-f.e))

\* ------------------------------------------------- renderer.rs gradients
\* (c1 as f32 * (1.0 - ratio) + c2 as f32 * ratio) as u8
InterpolateChannel(c1, c2, ratio, one_minus) ==
  F32AsU8(F32Add(F32MulU8(c1, one_minus), F32MulU8(c2, ratio)))

InterpolateWith(color1, color2, ratio, one_minus) ==
  << InterpolateChannel(color1[1], color2[1], ratio, one_minus),
     InterpolateChannel(color1[2], color2[2], ratio, one_minus),
     InterpolateChannel(color1[3], color2[3], ratio, one_minus),
     255 >>

\* SnippetRenderer::interpolate_color; the ratios passed lie in [0, 1], which
\* clamp leaves as they are
interpolate_color(color1, color2, ratio) ==
  InterpolateWith(color1, color2, ratio, F32OneMinus(ratio))

\* a gradient that runs from color2 to color1
linear_gradient_horizontal_reversed(x, width, color1, color2) ==
  interpolate_color(color2, color1, F32Div(x, width))

\* SnippetRenderer::linear_gradient_horizontal
linear_gradient_horizontal(x, width, color1, color2) ==
  interpolate_color(color1, color2, F32Div(x, width))

\* one row of draw_gradient_backdrop for gradient_type 0 with the noise
\* effect disabled: the pixel put at each x
GradientRow(width, color1, color2) ==
  [i \in 1..width |-> linear_gradient_horizontal(i - 1, width, color1, color2)]

\* channel values of the two gradient colors
ChannelInputs == {0, 105, 200}

GradientColors == ChannelInputs \X ChannelInputs \X {105, 255} \X {255}

GradientCalls ==
  { [fn |-> "linear_gradient_horizontal", width |-> w, color1 |-> c1, color2 |-> c2] :
      w \in 1..MaxGradientWidth, c1 \in GradientColors, c2 \in GradientColors }

InitGradient ==
  /\ Idle
  /\ call \in GradientCalls
  /\ ret = None
  /\ pc = "gradient"

DrawGradientRow ==
  /\ pc = "gradient"
  /\ ret' = Some(GradientRow(call.width, call.color1, call.color2))
  /\ pc' = "gradient_done"
  /\ UNCHANGED << pipeline, call >>

NextGradient == DrawGradientRow

SpecGradient == InitGradient /\ [][NextGradient]_vars

\* ------------------------------------------- the same call made a second time
\* the calls that are repeated
RepeatCalls ==
  { Call(c, l, t, j) :
      c \in {StrPtr(<<"a", "\n", "a">>)},
      l \in {StrPtr(Str_rust)},
      t \in {StrPtr(AllUpper(Str_nord))},
      j \in { NullPtr,
              StrPtr(JsonDoc("object", Fields, PlainConfig, FALSE)),
              StrPtr(JsonDoc("object", Fields, CompactConfig, FALSE)) } }

InitRepeat ==
  /\ args \in RepeatCalls
  /\ font_env \in FontEnvs
  /\ pc = "conv_code"
  /\ code_str = None /\ language_str = None /\ theme_str = None
  /\ config = None /\ renderer = None
  /\ highlighted_lines = <<>>
  /\ layout = NoLayout
  /\ image = NoImage
  /\ log = <<>>
  /\ outcome = Running
  /\ result = None
  /\ heap = [live |-> {}, from_raw |-> 0]
  /\ derefs = {}
  /\ hex_in = <<>> /\ hex_out = None
  /\ call = NoCall /\ ret = None
  /\ world = NoWorld /\ previous = None

\* the caller has freed the string and calls generate_snippet_image again with
\* the arguments of the first call; the working directory and the files under
\* the font paths are whatever they are by then
CallAgain ==
  /\ pc = "freed"
  /\ ~previous.some
  /\ previous' = Some([result |-> result.v, world |-> world, font_env |-> font_env])
  /\ font_env' \in FontEnvs
  /\ pc' = "conv_code"
  /\ code_str' = None /\ language_str' = None /\ theme_str' = None
  /\ config' = None /\ renderer' = None
  /\ highlighted_lines' = <<>>
  /\ layout' = NoLayout
  /\ image' = NoImage
  /\ log' = <<>>
  /\ outcome' = Running
  /\ result' = None
  /\ derefs' = {}
  /\ world' = NoWorld
  /\ UNCHANGED << args, heap, hexvars, drawvars >>

NextRepeat == Next \/ CallAgain

SpecRepeat == InitRepeat /\ [][NextRepeat]_vars

\* ---------------------------------------------------------- font.rs glyphs
\* GlyphInfo: data holds width * height coverage samples row by row;
\* advance_width is kept in quarters of a pixel
Glyph(data, width, height, advance_width, bearing_x, bearing_y) ==
  [ data |-> data, width |-> width, height |-> height,
    advance_width |-> advance_width, bearing_x |-> bearing_x,
    bearing_y |-> bearing_y ]

\* FontManager::render_glyph: what fontdue's rasterize gives for the loaded
\* font at the size in use.  "a" sits on the baseline, "T" is taller, "g" and
\* "j" descend below it, " " has no bitmap, any other character gives the
\* font's replacement glyph
render_glyph(character) ==
  CASE character = "a" -> Glyph(<<255, 128, 128, 255>>, 2, 2, 10, 0, 0)
    [] character = "T" -> Glyph(<<255, 255, 255, 0, 255, 0, 0, 128, 0>>, 3, 3, 14, 0, 0)
    [] character = "g" -> Glyph(<<128, 255, 255, 0, 128, 255>>, 2, 3, 10, 0, -1)
    [] character = "j" -> Glyph(<<255, 0, 255, 128>>, 1, 4, 6, -1, -1)
    [] character = "1" -> Glyph(<<128, 255, 255>>, 1, 3, 10, 1, 0)
    [] character = " " -> Glyph(<<>>, 0, 0, 10, 0, 0)
    [] OTHER -> Glyph(<<255, 255, 255, 255>>, 2, 2, 10, 0, 0)

\* a canvas with its pixels: px maps <<x, y>> to Rgba
Canvas(width, height, fill) ==
  [ width |-> width, height |-> height,
    px |-> [p \in (0..(width - 1)) \X (0..(height - 1)) |-> fill] ]

\* blend_alpha_pixel: foreground * alpha_f + background * inv_alpha in f32,
\* each channel cast with `as u8`, alpha 255
blend_alpha_pixel(background, foreground, alpha) ==
  IF alpha = 255 THEN foreground
  ELSE IF alpha = 0 THEN background
  ELSE InterpolateWith(background, foreground, F32Div(alpha, 255),
                       F32OneMinus(F32Div(alpha, 255)))

\* a placement that hangs the bitmap from y instead of standing it on y
SampleDest_hanging(glyph, x, y, i) ==
  << (x + glyph.bearing_x) + ((i - 1) % glyph.width),
     y + ((i - 1) \div glyph.width) >>

\* the destination of sample i (counted from 1) of a glyph blended at (x, y)
SampleDest(glyph, x, y, i) ==
  << (x + glyph.bearing_x) + ((i - 1) % glyph.width),
     (y - (glyph.height + glyph.bearing_y)) + ((i - 1) \div glyph.width) >>

\* the samples blend_glyph does not `continue` past
BlendedSamples(img, glyph, x, y) ==
  { i \in 1..Len(glyph.data) :
      glyph.data[i] # 0 /\ InSurface(img, SampleDest(glyph, x, y, i)) }

\* a blend that skips the bounds test
blend_glyph_unclipped(img, glyph, x, y, color) ==
  LET dests == {SampleDest(glyph, x, y, i) : i \in 1..Len(glyph.data)}
  IN  PutPixels(img, dests) @@ [px |-> img.px]

\* FontManager::blend_glyph: Ok(()) and the canvas after the loop; put is the
\* set of pixels put_pixel was called on
blend_glyph(img, glyph, x, y, color) ==
  LET hit == BlendedSamples(img, glyph, x, y)
      at(p) == CHOOSE i \in hit : SampleDest(glyph, x, y, i) = p
      put == {SampleDest(glyph, x, y, i) : i \in hit}
  IN  [ kind |-> "ok", put |-> put,
        px |-> [p \in DOMAIN img.px |->
                  IF p \in put
                    THEN blend_alpha_pixel(img.px[p], color, glyph.data[at(p)])
                    ELSE img.px[p]] ]

\* ------------------------------------------------------ renderer.rs text
\* char::is_control for the characters used here
is_control(ch) == ch \in {"\n", "\r", "\t"}

\* glyph.advance_width as i32
AdvanceAsI32(glyph) == glyph.advance_width \div 4

\* the loop of draw_text from character k on: blends lists the blend_glyph
\* calls made
RECURSIVE TextLoop(_, _, _, _, _, _, _)
TextLoop(img, text, k, current_x, baseline_y, color, blends) ==
  IF k > Len(text)
    THEN [image |-> img, current_x |-> current_x, blends |-> blends]
  ELSE IF is_control(text[k]) /\ text[k] # "\t"
    THEN TextLoop(img, text, k + 1, current_x, baseline_y, color, blends)
  ELSE LET glyph == render_glyph(text[k])
           b == blend_glyph(img, glyph, current_x, baseline_y, color)
       IN  TextLoop([img EXCEPT !.px = b.px], text, k + 1,
                    current_x + AdvanceAsI32(glyph), baseline_y, color,
                    Append(blends, [ch |-> text[k], glyph |-> glyph,
                                    x |-> current_x, y |-> baseline_y,
                                    put |-> b.put]))

\* SnippetRenderer::draw_text: Ok((current_x - x as i32) as u32)
draw_text(img, text, x, y, color) ==
  LET r == TextLoop(img, text, 1, x, y, color, <<>>)
  IN  [ kind |-> "ok", v |-> r.current_x - x, px |-> r.image.px,
        blends |-> r.blends ]

\* ---- the text routines on their own
FontChars == {"a", "T", "g", "j", "1", " ", "\t"}

TextColors4 == {<<255, 85, 85, 255>>, <<248, 248, 242, 255>>}

CanvasFills == {<<40, 42, 54, 255>>, <<0, 0, 0, 0>>}

BlendCalls ==
  { [ fn |-> "blend_glyph", image |-> Canvas(MaxSide, MaxSide, fill),
      glyph |-> render_glyph(ch), x |-> x, y |-> y, color |-> c ] :
      fill \in CanvasFills, ch \in FontChars, x \in {-2, 0, 3, 6},
      y \in (-1)..(MaxSide + 3), c \in TextColors4 }

TextCalls ==
  { [ fn |-> "draw_text", image |-> Canvas(MaxSide + 2, MaxSide, <<40, 42, 54, 255>>),
      text |-> t, x |-> x, y |-> y, color |-> <<248, 248, 242, 255>> ] :
      t \in SeqsUpTo({"a", "T", "g", "j", " ", "\n"}, MaxTextLen),
      x \in {0, 2}, y \in {3, 4} }

\* ------------------------------------------- renderer.rs draw_code_content
DecimalDigits == <<"0", "1", "2", "3", "4", "5", "6", "7", "8", "9">>

\* the decimal digits of an unsigned integer, as Display writes them
RECURSIVE to_decimal(_)
to_decimal(n) ==
  IF n < 10 THEN <<DecimalDigits[n + 1]>>
  ELSE to_decimal(n \div 10) \o <<DecimalDigits[(n % 10) + 1]>>

\* format!("{:3} ", n): the number right-aligned in a field of three, filled
\* with spaces, then a space
format_line_num(n) ==
  LET d == to_decimal(n)
  IN  (IF Len(d) >= 3 THEN d ELSE [i \in 1..(3 - Len(d)) |-> " "] \o d) \o <<" ">>

\* what one line draws, in order: the line number with the spacing added
\* after it, then the tokens
LineItems(r, line, line_index) ==
  (IF r.config.line_numbers
     THEN << [ text |-> format_line_num(line_index + 1),
               hex |-> r.theme.comment.hex,
               spacing |-> AsU32(10 * r.config.export_size, 4) ] >>
     ELSE <<>>)
  \o [k \in 1..Len(line.tokens) |->
        [ text |-> line.tokens[k].text, hex |-> line.tokens[k].color.hex,
          spacing |-> 0 ]]

\* the body of the loop over the lines from item k of line `line_index` on;
\* st holds the canvas, the pen x and the draw_text calls made so far
RECURSIVE ContentLoop(_, _, _, _, _, _)
ContentLoop(r, lines, line_index, k, geo, st) ==
  IF line_index >= Len(lines) THEN [st EXCEPT !.kind = "ok"]
  ELSE LET items == LineItems(r, lines[line_index + 1], line_index)
           y == geo.start_y + (line_index * geo.scaled_line_height)
       IN  IF k > Len(items)
             THEN ContentLoop(r, lines, line_index + 1, 1, geo,
                              [st EXCEPT !.x = geo.start_x])
           ELSE LET c == rgba_from_hex(items[k].hex)
                    d == draw_text([width |-> st.width, height |-> st.height,
                                    px |-> st.px],
                                   items[k].text, st.x, y, c.rgba)
                IN  IF c.kind # "ok" THEN [st EXCEPT !.kind = c.kind]
                    ELSE ContentLoop(r, lines, line_index, k + 1, geo,
                           [st EXCEPT
                              !.px = d.px,
                              !.x = st.x + d.v + items[k].spacing,
                              !.texts = Append(st.texts,
                                 [ line |-> line_index, text |-> items[k].text,
                                   x |-> st.x, y |-> y, color |-> c.rgba,
                                   v |-> d.v, blends |-> d.blends ])])

\* SnippetRenderer::draw_code_content
draw_code_content(r, img, highlighted, line_height_u32, offset_x, offset_y) ==
  LET scaled_padding == get_scaled_padding(r.config)
      geo == [ start_y |->
                 offset_y + (IF r.config.window_controls
                               THEN scaled_padding + AsU32(40 * r.config.export_size, 4)
                               ELSE scaled_padding),
               scaled_line_height |-> AsU32(line_height_u32 * r.config.export_size, 4),
               start_x |-> offset_x + scaled_padding ]
  IN  ContentLoop(r, highlighted, 0, 1, geo,
        [ kind |-> "running", width |-> img.width, height |-> img.height,
          px |-> img.px, x |-> geo.start_x, texts |-> <<>> ])

\* ---- draw_code_content on its own
ContentConfigs ==
  { [PlainConfig EXCEPT !.line_numbers = ln, !.export_size = e, !.padding = p,
                        !.window_controls = wc] :
      ln \in BOOLEAN, e \in {4, 6}, p \in {0, 1}, wc \in BOOLEAN }

ContentCalls ==
  { [ fn |-> "draw_code_content",
      renderer |-> [theme |-> dracula_theme, config |-> cfg],
      image |-> Canvas(MaxSide + 2, MaxSide, <<40, 42, 54, 255>>),
      lines |-> highlight_with_patterns(code, dracula_theme),
      line_height |-> 2, offset_x |-> 0, offset_y |-> 1 ] :
      cfg \in ContentConfigs,
      code \in SeqsUpTo({"a", "g", " ", "\n"}, MaxTextLen) }

InitText ==
  /\ Idle
  /\ call \in BlendCalls \cup TextCalls \cup ContentCalls
  /\ ret = None
  /\ pc = "text_call"

BlendGlyph ==
  /\ pc = "text_call" /\ call.fn = "blend_glyph"
  /\ ret' = Some(blend_glyph(call.image, call.glyph, call.x, call.y, call.color))
  /\ pc' = "text_done"
  /\ UNCHANGED << pipeline, call >>

DrawText ==
  /\ pc = "text_call" /\ call.fn = "draw_text"
  /\ ret' = Some(draw_text(call.image, call.text, call.x, call.y, call.color))
  /\ pc' = "text_done"
  /\ UNCHANGED << pipeline, call >>

DrawContent ==
  /\ pc = "text_call" /\ call.fn = "draw_code_content"
  /\ ret' = Some(draw_code_content(call.renderer, call.image, call.lines,
                   call.line_height, call.offset_x, call.offset_y))
  /\ pc' = "text_done"
  /\ UNCHANGED << pipeline, call >>

NextText == BlendGlyph \/ DrawText \/ DrawContent

SpecText == InitText /\ [][NextText]_vars


\* ------------------------------------------- the highlighter on its own
\* the (from, to) of the slice of chars that the iteration of the
\* `while i < chars.len()` loop starting at i takes for its token, counted
\* from 0 as the code counts: chars[start..i], chars[string_start..i],
\* chars[i..], chars[token_start..i], or the one character chars[i]
HighlightSlice(chars, i) ==
  LET ws == FirstStop(chars, i, {d \in Range(chars) : ~IsWhitespace(d)})
      c  == chars[i + 1]
      q  == ScanString(chars, i + 1, c)
      qe == IF q < Len(chars) THEN q + 1 ELSE q
      w  == FirstStop(chars, i, {d \in Range(chars) : IsWhitespace(d) \/ IsDelimiter(d)})
  IN  IF ws > i THEN <<i, ws>>
      ELSE IF c = "\"" \/ c = "'" THEN <<i, qe>>
      ELSE IF i + 1 < Len(chars) /\ c = "/" /\ chars[i + 2] = "/" THEN <<i, Len(chars)>>
      ELSE IF w > i THEN <<i, w>>
      ELSE <<i, i + 1>>

\* the loop of highlight_line before its first iteration:
\* let mut tokens = Vec::new(); let mut i = 0;
ScanStart == [kind |-> "running", i |-> 0, tokens |-> <<>>, iterations |-> 0]

\* one iteration of the loop from the state st; a slice that ends past the
\* end of chars panics
ScanIteration(chars, st, theme) ==
  IF HighlightSlice(chars, st.i)[2] > Len(chars)
    THEN [st EXCEPT !.kind = "panic", !.iterations = st.iterations + 1]
    ELSE LET s == HighlightStep(chars, st.i, theme)
         IN  [ kind |-> IF s.brk THEN "break" ELSE "running",
               i |-> s.i,
               tokens |-> st.tokens \o s.tokens,
               iterations |-> st.iterations + 1 ]

LineAlphabet == {"a", " ", "\"", "\\", "/", "("}

SourceAlphabet == {"a", "/", "\r", "\n"}

LineCalls ==
  { [fn |-> "highlight_line", line |-> l, theme |-> dracula_theme] :
      l \in SeqsUpTo(LineAlphabet, MaxLineLen) }

CodeCalls ==
  { [fn |-> "highlight_code", code |-> c, language |-> l, style |-> s,
     theme |-> dracula_theme] :
      c \in SeqsUpTo(SourceAlphabet, MaxLineLen),
      l \in {Str_rust, <<"z", "z">>},
      s \in SyntectStyles }

InitSyntax ==
  /\ Idle
  /\ call \in LineCalls \cup CodeCalls
  /\ ret = None
  /\ pc = "syntax_call"

HighlightCode ==
  /\ pc = "syntax_call" /\ call.fn = "highlight_code"
  /\ ret' = Some(highlight_code(call.code, call.language, call.style, call.theme))
  /\ pc' = "syntax_done"
  /\ UNCHANGED << pipeline, call >>

HighlightLineEnter ==
  /\ pc = "syntax_call" /\ call.fn = "highlight_line"
  /\ ret' = Some(ScanStart)
  /\ pc' = "scan"
  /\ UNCHANGED << pipeline, call >>

\* while i < chars.len() { ... }
HighlightLineIterate ==
  /\ pc = "scan" /\ ret.v.kind = "running" /\ ret.v.i < Len(call.line)
  /\ ret' = Some(ScanIteration(call.line, ret.v, call.theme))
  /\ pc' = IF ret'.v.kind = "panic" THEN "syntax_done" ELSE "scan"
  /\ UNCHANGED << pipeline, call >>

\* HighlightedLine { tokens }
HighlightLineReturn ==
  /\ pc = "scan"
  /\ ret.v.kind = "break" \/ (ret.v.kind = "running" /\ ret.v.i >= Len(call.line))
  /\ ret' = Some([ret.v EXCEPT !.kind = "ok"])
  /\ pc' = "syntax_done"
  /\ UNCHANGED << pipeline, call >>

NextSyntax ==
  HighlightCode \/ HighlightLineEnter \/ HighlightLineIterate \/ HighlightLineReturn

SpecSyntax == InitSyntax /\ [][NextSyntax]_vars


\* ----------------------------------- render_snippet: layout and text rows
\* what render_snippet hands to draw_code_content: the canvas of the final
\* size, the lines, the unscaled padding, the line advance and the panel's
\* corner (padding is not used by draw_code_content)
PlaceContent(r, lines, lay) ==
  draw_code_content(r,
    Canvas(lay.final_width, lay.final_height,
           rgba_from_hex(r.theme.background.hex).rgba),
    lines, lay.line_height,
    get_scaled_panel_padding(r.config), get_scaled_panel_padding(r.config))

\* k lines of one token each
TextLines(k) ==
  [i \in 1..k |-> [tokens |-> << [text |-> <<"a">>, color |-> dracula_theme.foreground] >>]]

LayoutConfigs ==
  { [PlainConfig EXCEPT !.width = 1, !.height = None, !.line_numbers = FALSE,
                        !.padding = p, !.line_height = m, !.font_size = fs,
                        !.export_size = e, !.window_controls = wc,
                        !.panel_padding = pp] :
      p \in {0, 1, 2}, m \in {0, 4, 5}, fs \in {4, 8}, e \in {0, 2, 4, 8},
      wc \in BOOLEAN, pp \in {0, 1} }

LayoutFonts ==
  { FontEnv(<<"ok", "absent", "absent", "absent", "absent", "absent">>, m) :
      m \in {None, Some(80)} }

LayoutCalls ==
  { [ fn |-> "render_snippet",
      renderer |-> SnippetRenderer_new(Str_dracula, cfg, env).v,
      lines |-> TextLines(k) ] :
      cfg \in LayoutConfigs, env \in LayoutFonts, k \in 0..MaxLayoutLines }

InitLayout ==
  /\ Idle
  /\ call \in LayoutCalls
  /\ ret = None
  /\ pc = "layout_call"

\* render_snippet up to final_height
MeasureSnippet ==
  /\ pc = "layout_call"
  /\ ret' = Some([ layout |-> ComputeLayout(call.renderer, Len(call.lines)),
                   content |-> None ])
  /\ pc' = "layout_draw"
  /\ UNCHANGED << pipeline, call >>

\* self.draw_code_content(&mut image, &highlighted_lines, padding,
\*                        line_height, panel_x, panel_y)?
PlaceSnippetText ==
  /\ pc = "layout_draw"
  /\ ret' = Some([ret.v EXCEPT
                    !.content = Some(PlaceContent(call.renderer, call.lines,
                                                  ret.v.layout))])
  /\ pc' = "layout_done"
  /\ UNCHANGED << pipeline, call >>

NextLayout == MeasureSnippet \/ PlaceSnippetText

SpecLayout == InitLayout /\ [][NextLayout]_vars

\* ------------------------------------------ renderer.rs: the whole backdrop
\* f32::sqrt of an integer n >= 1: root and rem hold the floor of the square
\* root of n * 4^j and what is left over; k more bits are taken
RECURSIVE SqrtBits(_, _, _)
SqrtBits(root, rem, k) ==
  IF k = 0 THEN [root |-> root, rem |-> rem]
  ELSE IF 4 * rem >= 4 * root + 1
    THEN SqrtBits(2 * root + 1, 4 * rem - (4 * root + 1), k - 1)
    ELSE SqrtBits(2 * root, 4 * rem, k - 1)

IntSqrt(n) == CHOOSE k \in 0..n : k * k <= n /\ (k + 1) * (k + 1) > n

SqrtRounded(s, k) == RoundF32(s.root, -k, s.rem # 0)

\* (n as f32).sqrt() for an integer n below 2^24
F32Sqrt(n) ==
  IF n = 0 THEN F32Zero
  ELSE SqrtRounded(SqrtBits(IntSqrt(n), n - IntSqrt(n) * IntSqrt(n),
                            26 - BitLen(IntSqrt(n))),
                   26 - BitLen(IntSqrt(n)))

\* a / b for two f32 with 0 <= a <= b and b > 0
F32Quot(a, b) ==
  IF a.m = 0 THEN F32Zero
  ELSE IF a.m <= b.m
    THEN [m |-> F32Div(a.m, b.m).m, e |-> F32Div(a.m, b.m).e + (a.e - b.e)]
  ELSE [m |-> F32Div(a.m, 2 * b.m).m, e |-> F32Div(a.m, 2 * b.m).e + (a.e - b.e) + 1]

\* f / 2.0
F32Half(f) == IF f.m = 0 THEN F32Zero ELSE [m |-> f.m, e |-> f.e - 1]

\* SnippetRenderer::linear_gradient_vertical
linear_gradient_vertical(y, height, color1, color2) ==
  interpolate_color(color1, color2, F32Div(y, height))

\* SnippetRenderer::radial_gradient: (x - width / 2)^2 + (y - height / 2)^2
\* is a whole number of quarters, so that distance is half the root of four
\* times it; max_distance is half a root too and the halves cancel in the
\* ratio; distance never exceeds max_distance and the clamp changes nothing
radial_gradient(x, y, width, height, color1, color2) ==
  LET distance == F32Sqrt((2 * x - width) * (2 * x - width)
                            + (2 * y - height) * (2 * y - height))
      max_distance == F32Sqrt(width * width + height * height)
  IN  interpolate_color(color1, color2, F32Quot(distance, max_distance))

\* SnippetRenderer::diagonal_gradient
diagonal_gradient(x, y, width, height, color1, color2) ==
  interpolate_color(color1, color2,
    F32Half(F32Add(F32Div(x, width), F32Div(y, height))))

\* the n-th value (from 1) that the generator returns in one call of
\* draw_gradient_backdrop; each seed stands for one stream of thread_rng
RngValue(seed, n) == ((seed * 89) + (n * 53)) % 240

\* rng.gen_range(-range..range) for an f32 range, in quarters
gen_range_f32(seed, n, range) ==
  (RngValue(seed, n) % (8 * range)) - (4 * range)

\* ((v as f32 + delta).clamp(0.0, 255.0)) as u8 for delta in quarters
ClampedAsU8(v, delta) ==
  IF 4 * v + delta <= 0 THEN 0
  ELSE IF 4 * v + delta >= 1020 THEN 255
  ELSE (4 * v + delta) \div 4

\* SnippetRenderer::generate_random_gradient_color, taking the draws n,
\* n + 1 and n + 2 of the stream
generate_random_gradient_color(r, seed, n) ==
  LET parsed == rgba_from_hex(r.theme.background.hex)
      base_color == IF parsed.kind = "ok" THEN parsed.rgba ELSE <<30, 30, 30, 255>>
      lightened_base == [i \in 1..3 |-> ClampedAsU8(base_color[i], 4 * 60)] \o <<255>>
  IN  << ClampedAsU8(lightened_base[1], gen_range_f32(seed, n, 30)),
         ClampedAsU8(lightened_base[2], gen_range_f32(seed, n + 1, 30)),
         ClampedAsU8(lightened_base[3], gen_range_f32(seed, n + 2, 30)),
         255 >>

\* a noise that also shakes the alpha channel
apply_noise_effect_alpha(color, noise) ==
  << ClampedAsU8(color[1], noise), ClampedAsU8(color[2], noise),
     ClampedAsU8(color[3], noise), ClampedAsU8(color[4], noise) >>

\* SnippetRenderer::apply_noise_effect with the noise drawn from the stream
apply_noise_effect(color, noise) ==
  << ClampedAsU8(color[1], noise), ClampedAsU8(color[2], noise),
     ClampedAsU8(color[3], noise), color[4] >>

\* the color draw_gradient_backdrop puts at (x, y): the gradient chosen by
\* the seventh draw, then the noise; the pixels take their noise from the
\* stream row by row
GradientPixel(r, seed, width, height, x, y) ==
  LET color1 == generate_random_gradient_color(r, seed, 1)
      color2 == generate_random_gradient_color(r, seed, 4)
      gradient_type == RngValue(seed, 7) % 4
      pixel_color ==
        CASE gradient_type = 0 -> linear_gradient_horizontal(x, width, color1, color2)
          [] gradient_type = 1 -> linear_gradient_vertical(y, height, color1, color2)
          [] gradient_type = 2 -> radial_gradient(x, y, width, height, color1, color2)
          [] OTHER -> diagonal_gradient(x, y, width, height, color1, color2)
  IN  IF r.config.noise_effect
        THEN apply_noise_effect(pixel_color,
               gen_range_f32(seed, 8 + (y * width) + x, 15))
        ELSE pixel_color

\* SnippetRenderer::draw_gradient_backdrop on the canvas img, which holds
\* its outcome so far in kind; put_pixel panics outside the canvas
draw_gradient_backdrop(r, img, width, height, seed) ==
  IF \E p \in (0..(width - 1)) \X (0..(height - 1)) : ~InSurface(img, p)
    THEN [img EXCEPT !.kind = "panic"]
    ELSE [img EXCEPT !.px =
            [p \in DOMAIN img.px |->
               IF p[1] < width /\ p[2] < height
                 THEN GradientPixel(r, seed, width, height, p[1], p[2])
                 ELSE img.px[p]]]

\* ------------------------------- render_snippet: the passes over the pixels
\* ImageBuffer::new(width, height): every channel of every pixel is zero
ImageBuffer_new(width, height) ==
  [ kind |-> "ok", width |-> width, height |-> height,
    px |-> Canvas(width, height, <<0, 0, 0, 0>>).px ]

\* what a `?` leaves of the canvas st after a conversion or a shape routine
\* whose outcome is res: the pixels of res.put take the color, or the pass
\* ends with res.kind
PutColor(st, res, color) ==
  IF st.kind # "ok" THEN st
  ELSE IF res.kind # "ok" THEN [st EXCEPT !.kind = res.kind]
  ELSE [st EXCEPT !.px = [p \in DOMAIN st.px |->
                            IF p \in res.put THEN color ELSE st.px[p]]]

\* the conversion alone: its failure ends the pass
Converted(st, c) ==
  IF st.kind # "ok" \/ c.kind = "ok" THEN st ELSE [st EXCEPT !.kind = c.kind]

\* darken_color(hex, factor): each channel times 1.0 - factor, the alpha of
\* the base color
darken_color(hex, factor) ==
  LET base_color == rgba_from_hex(hex)
  IN  IF base_color.kind # "ok" THEN base_color
      ELSE [ kind |-> "ok",
             rgba |-> << F32AsU8(F32MulU8(base_color.rgba[1], F32OneMinus(factor))),
                         F32AsU8(F32MulU8(base_color.rgba[2], F32OneMinus(factor))),
                         F32AsU8(F32MulU8(base_color.rgba[3], F32OneMinus(factor))),
                         base_color.rgba[4] >> ]

\* render_snippet, the backdrop: the gradient, or the theme background put
\* on every pixel
draw_backdrop(r, st, lay, seed) ==
  IF r.config.gradient_backdrop
    THEN draw_gradient_backdrop(r, st, lay.final_width, lay.final_height, seed)
    ELSE PutColor(st, [kind |-> rgba_from_hex(r.theme.background.hex).kind,
                       put |-> DOMAIN st.px],
                  rgba_from_hex(r.theme.background.hex).rgba)

\* render_snippet, the panel
draw_panel(r, st, lay) ==
  LET panel_bg_color == rgba_from_hex(r.theme.background.hex)
  IN  PutColor(Converted(st, panel_bg_color),
        draw_rounded_rect(st, get_scaled_panel_padding(r.config),
          get_scaled_panel_padding(r.config), get_actual_width(r.config),
          get_actual_height(r.config, lay.panel_height),
          r.config.border_radius, r.config.export_size),
        panel_bg_color.rgba)

\* one control of the window frame
DrawControl(st, x, y, radius, color_hex) ==
  PutColor(st, draw_circle(st, x, y, radius, color_hex),
           rgba_from_hex(color_hex).rgba)

\* SnippetRenderer::draw_window_frame
draw_window_frame(r, st, width, padding, offset_x, offset_y) ==
  LET frame_height == AsU32(40 * r.config.export_size, 4)
      title_bar_color == darken_color(r.theme.background.hex, F32Div(1, 10))
      bar == PutColor(Converted(st, title_bar_color),
               draw_rounded_rect_top_only(st, offset_x, offset_y, width,
                 frame_height, r.config.border_radius, r.config.export_size),
               title_bar_color.rgba)
      control_radius == AsU32(6 * r.config.export_size, 4)
      control_y == offset_y + (frame_height \div 2)
      control_spacing == AsU32(20 * r.config.export_size, 4)
      start_x == offset_x + (padding \div 2)
  IN  DrawControl(
        DrawControl(
          DrawControl(bar, start_x, control_y, control_radius, ControlColors[1]),
          start_x + control_spacing, control_y, control_radius, ControlColors[2]),
        start_x + (control_spacing * 2), control_y, control_radius, ControlColors[3])

\* render_snippet, the text
draw_content(r, st, lines, lay) ==
  LET d == draw_code_content(r, st, lines, lay.line_height,
             get_scaled_panel_padding(r.config), get_scaled_panel_padding(r.config))
  IN  [st EXCEPT !.kind = d.kind, !.px = d.px]

CanvasConfigs ==
  { [PlainConfig EXCEPT !.width = 24, !.height = None, !.padding = 8,
                        !.line_height = 16, !.font_size = 16,
                        !.line_numbers = FALSE, !.border_radius = 32,
                        !.panel_padding = 4,
                        !.export_size = e, !.window_controls = wc,
                        !.gradient_backdrop = gb, !.noise_effect = ne] :
      e \in {1, 2}, wc \in BOOLEAN, gb \in BOOLEAN, ne \in BOOLEAN }

\* one seed for each of the four gradients
CanvasSeeds == 0..3

CanvasCalls ==
  { [ fn |-> "render_snippet",
      renderer |-> SnippetRenderer_new(Str_dracula, cfg,
                     FontEnv(<<"ok", "absent", "absent", "absent", "absent", "absent">>,
                             None)).v,
      lines |-> TextLines(k), seed |-> s ] :
      cfg \in CanvasConfigs, s \in CanvasSeeds, k \in {0, MaxLayoutLines - 1} }

InitCanvas ==
  /\ Idle
  /\ call \in CanvasCalls
  /\ ret = None
  /\ pc = "canvas_call"

CanvasLayout == ComputeLayout(call.renderer, Len(call.lines))

\* the canvas after a pass: what the pass made of it and the passes so far
AfterPass(st, name) == Some([st EXCEPT !.passes = Append(ret.v.passes, name)])

\* let mut image = ImageBuffer::new(final_width, final_height);
NewCanvas ==
  /\ pc = "canvas_call"
  /\ ret' = Some([ kind |-> "ok", width |-> CanvasLayout.final_width,
                   height |-> CanvasLayout.final_height,
                   px |-> ImageBuffer_new(CanvasLayout.final_width,
                                          CanvasLayout.final_height).px,
                   passes |-> <<>> ])
  /\ pc' = "canvas_backdrop"
  /\ UNCHANGED << pipeline, call >>

\* a pass that fails ends the call without an image
PassTo(next) ==
  pc' = IF ret'.v.kind = "ok" THEN next ELSE "canvas_failed"

PaintBackdrop ==
  /\ pc = "canvas_backdrop"
  /\ ret' = AfterPass(draw_backdrop(call.renderer, ret.v, CanvasLayout, call.seed),
                      "backdrop")
  /\ PassTo("canvas_panel")
  /\ UNCHANGED << pipeline, call >>

PaintPanel ==
  /\ pc = "canvas_panel"
  /\ ret' = AfterPass(draw_panel(call.renderer, ret.v, CanvasLayout), "panel")
  /\ PassTo(IF call.renderer.config.window_controls
              THEN "canvas_chrome" ELSE "canvas_text")
  /\ UNCHANGED << pipeline, call >>

PaintChrome ==
  /\ pc = "canvas_chrome"
  /\ ret' = AfterPass(
              draw_window_frame(call.renderer, ret.v,
                get_actual_width(call.renderer.config),
                call.renderer.config.padding,
                get_scaled_panel_padding(call.renderer.config),
                get_scaled_panel_padding(call.renderer.config)),
              "chrome")
  /\ PassTo("canvas_text")
  /\ UNCHANGED << pipeline, call >>

PaintText ==
  /\ pc = "canvas_text"
  /\ ret' = AfterPass(draw_content(call.renderer, ret.v, call.lines, CanvasLayout),
                      "text")
  /\ PassTo("canvas_encode")
  /\ UNCHANGED << pipeline, call >>

\* let png_data = self.image_to_png_bytes(&image)?;
HandToEncoder ==
  /\ pc = "canvas_encode"
  /\ ret' = AfterPass(ret.v, "encoder")
  /\ pc' = "canvas_done"
  /\ UNCHANGED << pipeline, call >>

NextCanvas ==
  NewCanvas \/ PaintBackdrop \/ PaintPanel \/ PaintChrome \/ PaintText
    \/ HandToEncoder

SpecCanvas == InitCanvas /\ [][NextCanvas]_vars
\* ================================================================ claims
IsPrefix(s, t) == Len(s) <= Len(t) /\ SubSeq(t, 1, Len(s)) = s

FullLog(cfg) == <<"alloc">> \o ExpectedPasses(cfg) \o <<"encode">>

FontLoadable == \E i \in 1..Len(font_paths) : font_env.files[i] = "ok"

\* the catalog in the order of get_theme_names
ThemesInOrder ==
  << dracula_theme, monokai_theme, github_theme, nord_theme,
     solarized_dark_theme, solarized_light_theme, one_dark_theme,
     gruvbox_theme >>

CatalogTheme(n) ==
  ThemesInOrder[CHOOSE i \in 1..Len(get_theme_names) : get_theme_names[i] = n]

\* SnippetRenderer::new has returned, with a renderer or with an error
RendererDecided ==
  renderer.some \/ (outcome.kind = "err" /\ outcome.err \in {"UnknownTheme", "NoFont"})

\* the configuration has been parsed, or rejected by the parser
ParseDecided ==
  config.some \/ (outcome.kind = "err" /\ outcome.err = "InvalidJson")

\* C1: once safe_generate_snippet_image has returned, the pointer is either
\* null (after an error or a panic anywhere in the closure) or a string that
\* holds the canvas after allocation, every drawing pass of the configuration
\* and a successful encoding; an error or panic never yields a string.
C1_CompleteImageOrNull ==
  result.some =>
    \/ /\ result.v = NullPtr
       /\ outcome.kind \in {"err", "panic"}
    \/ /\ result.v.tag = "cstr"
       /\ outcome.kind = "ok"
       /\ result.v.s.prefix = "data:image/png;base64,"
       /\ result.v.s.passes = ExpectedPasses(config.v)
       /\ result.v.s.width = layout.final_width
       /\ result.v.s.height = layout.final_height
       /\ log = FullLog(config.v)

\* a panic after some but not all passes were drawn, answered with null
C1_PanicMidDrawing ==
  /\ result.some /\ result.v = NullPtr
  /\ outcome.kind = "panic"
  /\ PassesOf(log) # <<>>
  /\ Len(PassesOf(log)) < Len(ExpectedPasses(config.v))

\* C2 as stated: construction fails exactly when the lower-cased name is not
\* in the catalog, and a failed construction allocates and returns nothing.
C2_FailsIffUnknownName ==
  RendererDecided =>
    /\ (~renderer.some) <=> (to_lowercase(theme_str.v) \notin CatalogNames)
    /\ (~renderer.some) => (image.allocs = 0 /\ log = <<>>)

\* C2 (amended): construction fails with the unknown-theme error exactly when
\* the lower-cased name is not in the catalog, and fails at all exactly when
\* the name is unknown or no font of the search path is usable; a failed
\* construction allocates no canvas and returns null; a constructed renderer
\* holds the catalog theme of the lower-cased name, whatever the spelling.
C2_UnknownThemeOrNoFont ==
  RendererDecided =>
    /\ (outcome.kind = "err" /\ outcome.err = "UnknownTheme")
         <=> (to_lowercase(theme_str.v) \notin CatalogNames)
    /\ (~renderer.some)
         <=> (to_lowercase(theme_str.v) \notin CatalogNames \/ ~FontLoadable)
    /\ (~renderer.some) =>
         /\ image.allocs = 0 /\ log = <<>>
         /\ result.some => result.v = NullPtr
    /\ renderer.some =>
         renderer.v.theme = CatalogTheme(to_lowercase(theme_str.v))

\* a renderer built from a mixed-case spelling
C2_MixedCaseResolved ==
  /\ renderer.some
  /\ theme_str.v = <<"N", "o", "R", "d">>
  /\ renderer.v.theme = nord_theme

\* C3 as stated: a configuration object parses whatever fields it omits, the
\* omitted fields take the defaults and the given ones keep their values.
C3_OmittedFieldsTakeDefaults ==
  (args.config_json.tag = "str" /\ args.config_json.s.kind = "object" /\ ParseDecided) =>
    /\ config.some
    /\ \A f \in Fields :
         config.v[f] = IF f \in args.config_json.s.present
                         THEN args.config_json.s.vals[f] ELSE DefaultConfig[f]

\* C4: no null argument is handed to CStr::from_ptr; a null code or language
\* gives null without a renderer or a canvas; a null theme is rendered with
\* Dracula and a null config with the default configuration (and, given a
\* usable font, fails only by fault or encoder); freeing null changes nothing.
C4_NullPointers ==
  /\ \A a \in derefs : args[a] # NullPtr
  /\ (result.some /\ (args.code = NullPtr \/ args.language = NullPtr)) =>
       /\ result.v = NullPtr
       /\ ~renderer.some /\ image.allocs = 0 /\ log = <<>>
  /\ (args.theme = NullPtr /\ theme_str.some) => theme_str.v = Str_dracula
  /\ (args.theme = NullPtr /\ renderer.some) => renderer.v.theme = dracula_theme
  /\ (args.config_json = NullPtr /\ config.some) => config.v = DefaultConfig
  /\ (args.config_json = NullPtr /\ renderer.some) => renderer.v.config = DefaultConfig
  /\ (/\ result.some /\ args.code.tag = "str" /\ args.language.tag = "str"
      /\ args.theme = NullPtr /\ args.config_json = NullPtr /\ FontLoadable
      /\ outcome.kind # "panic" /\ outcome # Err("Encoding"))
       => result.v.tag = "cstr"
  /\ (pc = "freed" /\ result.v = NullPtr) => heap = [live |-> {}, from_raw |-> 0]

\* a call with null theme and null config that returned an image, since freed
C4_NullThemeAndConfigRendered ==
  /\ pc = "freed"
  /\ args.theme = NullPtr /\ args.config_json = NullPtr
  /\ result.v.tag = "cstr"
  /\ renderer.v.theme = dracula_theme /\ renderer.v.config = DefaultConfig
  /\ heap = [live |-> {}, from_raw |-> 1]

\* C5 as stated: with the default configuration the canvas is 2640 wide.
C5_DefaultWidth2640 ==
  (config.some /\ config.v = DefaultConfig /\ image.allocs > 0) => image.width = 2640

\* C5 (amended): with the default configuration (width 1200, panel padding 80,
\* export scale 2.0) the canvas is 1200*2 + 2*(80*2) = 2720 pixels wide.
C5_DefaultWidth2720 ==
  (config.some /\ config.v = DefaultConfig /\ image.allocs > 0) =>
    /\ image.width = 2720
    /\ layout.final_width = 2720

\* the canvas of a default-configuration call, just allocated
C5_DefaultCanvasAllocated ==
  pc = "backdrop" /\ config.v = DefaultConfig /\ image.allocs = 1 /\ image.alive

\* C6 as stated: with zero styled lines the content height is one line advance
\* and positive, the panel height is positive and the image is at least one
\* line advance plus the padding high, under every configuration.
C6_EmptyInputHeights ==
  (pc = "alloc" /\ layout.line_count = 0) =>
    /\ layout.content_height = layout.line_height
    /\ layout.content_height > 0
    /\ layout.panel_height > 0
    /\ layout.final_height >= layout.line_height + config.v.padding

\* C7: the log of a call is a prefix of: allocation, backdrop, panel, chrome
\* (only when window controls are enabled), text, encoding; so the canvas is
\* allocated at most once, no pass repeats or overtakes another, and the
\* encoder runs only on a canvas that went through every pass.
C7_PassOrder ==
  /\ image.allocs <= 1
  /\ image.allocs = (IF log # <<>> THEN 1 ELSE 0)
  /\ IF config.some THEN IsPrefix(log, FullLog(config.v)) ELSE log = <<>>
  /\ pc = "encode" => PassesOf(log) = ExpectedPasses(config.v)
  /\ (log # <<>> /\ log[Len(log)] = "encode") =>
       SubSeq(log, 1, Len(log) - 1) = <<"alloc">> \o ExpectedPasses(config.v)
  /\ image.alive => pc \in {"backdrop", "panel", "chrome", "text", "encode"}

\* a finished render without window controls: the chrome pass was skipped
C7_RenderedWithoutChrome ==
  /\ outcome.kind = "ok"
  /\ ~config.v.window_controls
  /\ log = <<"alloc", "backdrop", "panel", "text", "encode">>

\* C8: when the closure ends with a configuration error (malformed config,
\* unknown theme, invalid hex color) no drawing pass has run and the caller
\* gets null.
C8_ConfigErrorsBeforeDrawing ==
  (outcome.kind = "err" /\ outcome.err \in {"InvalidJson", "UnknownTheme", "InvalidHex"}) =>
    /\ PassesOf(log) = <<>>
    /\ result.some => result.v = NullPtr

\* an unknown theme rejected although font and configuration were fine
C8_UnknownThemeRejected ==
  /\ outcome = Err("UnknownTheme")
  /\ config.some /\ FontLoadable
  /\ log = <<>> /\ image.allocs = 0
  /\ result.some /\ result.v = NullPtr

\* the string after one leading '#' is taken off
StripOneHash(h) == IF Len(h) > 0 /\ h[1] = "#" THEN Tail(h) ELSE h

WellFormedHex(h) ==
  /\ Len(StripOneHash(h)) = 6
  /\ \A i \in 1..6 : IsHexDigit(StripOneHash(h)[i])

\* lower-case, with '#'
Canonical(h) == <<"#">> \o to_lowercase(StripOneHash(h))

\* C9 as stated: each conversion gives a color exactly for the strings that are
\* six hex digits after one leading '#' is stripped, and reports an error for
\* every other string; a malformed string never produces a color.
C9_MalformedHexRejected ==
  hex_out.some =>
    /\ (hex_out.v.hex_to_rgb.kind = "ok") <=> WellFormedHex(hex_in)
    /\ (hex_out.v.rgba_from_hex.kind = "ok") <=> WellFormedHex(hex_in)
    /\ ~WellFormedHex(hex_in) =>
         /\ hex_out.v.hex_to_rgb.kind = "err"
         /\ hex_out.v.rgba_from_hex.kind = "err"
         /\ hex_out.v.theme_color.kind # "ok"

\* C10: a well-formed string converts, formatting the triple gives its
\* canonical spelling (lower case, with '#'), which converts to the same
\* triple; the Color built from the string keeps the string, and its rgb field
\* is the color its hex field converts to.
C10_HexRoundTrip ==
  (hex_out.some /\ WellFormedHex(hex_in)) =>
    /\ hex_out.v.hex_to_rgb.kind = "ok"
    /\ hex_out.v.formatted = Canonical(hex_in)
    /\ hex_to_rgb(hex_out.v.formatted) = hex_out.v.hex_to_rgb
    /\ hex_out.v.theme_color.kind = "ok"
    /\ hex_out.v.theme_color.v.hex = hex_in
    /\ hex_out.v.theme_color.v.rgb = hex_out.v.hex_to_rgb.rgb
    /\ hex_out.v.rgba_from_hex = [kind |-> "ok", rgba |-> hex_out.v.theme_color.v.rgb \o <<255>>]

\* an upper-case string without '#', converted
C10_UpperCaseConverted ==
  /\ hex_out.some
  /\ hex_in = <<"F", "0", "0", "F", "F", "0">>
  /\ hex_out.v.formatted = <<"#", "f", "0", "0", "f", "f", "0">>

\* the effective radius of a rectangle call, in sixteenths
EffectiveRadius(c) ==
  Min(c.radius * c.export_size, Min(c.width, c.height) * 8)

\* the pixels of the rectangle of a call (relative to its corner) whose
\* destination is on the surface
OnSurfacePixels(c) ==
  { p \in (0..(c.width - 1)) \X (0..(c.height - 1)) :
      InSurface(c.surface, <<c.x + p[1], c.y + p[2]>>) }

FilledBy(c, r, p) == <<c.x + p[1], c.y + p[2]>> \in r.put

\* the four r-by-r squares at the corners, coordinates in sixteenths
InCornerSquare(p, w, h, r) ==
  (p[1] * 16 < r \/ p[1] * 16 > w * 16 - r) /\ (p[2] * 16 < r \/ p[2] * 16 > h * 16 - r)

\* the arc center of the corner square a pixel is in
ArcCenter(p, w, h, r) ==
  << IF p[1] * 16 < r THEN r ELSE w * 16 - r,
     IF p[2] * 16 < r THEN r ELSE h * 16 - r >>

WithinArc(p, c, r) ==
  (p[1] * 16 - c[1]) * (p[1] * 16 - c[1]) + (p[2] * 16 - c[2]) * (p[2] * 16 - c[2]) <= r * r

AllArcCenters(w, h, r) ==
  { <<r, r>>, <<w * 16 - r, r>>, <<r, h * 16 - r>>, <<w * 16 - r, h * 16 - r>> }

RoundedRectDone == pc = "shape_done" /\ call.fn = "draw_rounded_rect"

\* C11 as stated: every pixel farther than r from all four arc centers is
\* filled, and a pixel of a corner square is filled exactly when it is within
\* r of that corner's arc center.
C11_FartherThanRadiusFilled ==
  RoundedRectDone =>
    \A p \in OnSurfacePixels(call) :
      LET r == EffectiveRadius(call)
      IN  /\ (\A c \in AllArcCenters(call.width, call.height, r) : ~WithinArc(p, c, r))
               => FilledBy(call, ret.v, p)
          /\ InCornerSquare(p, call.width, call.height, r) =>
               (FilledBy(call, ret.v, p)
                  <=> WithinArc(p, ArcCenter(p, call.width, call.height, r), r))

\* C11 (amended): with the radius clamped to min(w,h)/2, every pixel of the
\* rectangle outside the four corner squares is filled, and a pixel of a
\* corner square is filled exactly when its distance to that corner's arc
\* center is at most r; nothing else is written.
C11_RoundedRectContainment ==
  RoundedRectDone =>
    LET r == EffectiveRadius(call)
    IN  /\ ret.v.kind = "ok"
        /\ \A p \in OnSurfacePixels(call) :
             FilledBy(call, ret.v, p) <=>
               \/ ~InCornerSquare(p, call.width, call.height, r)
               \/ WithinArc(p, ArcCenter(p, call.width, call.height, r), r)
        /\ ret.v.put \subseteq
             { <<call.x + p[1], call.y + p[2]>> : p \in OnSurfacePixels(call) }

\* a 5x5 rectangle of radius 2.5 drawn whole: the top-left pixel is left out,
\* like the midpoint of the top edge; its diagonal neighbour and the
\* bottom-right pixel (1.5 from its arc center on both axes) are filled
C11_CornerCut ==
  /\ RoundedRectDone
  /\ call.x = 0 /\ call.y = 0 /\ call.width = 5 /\ call.height = 5
  /\ EffectiveRadius(call) = 40
  /\ <<0, 0>> \notin ret.v.put /\ <<0, 4>> \notin ret.v.put
  /\ <<1, 1>> \in ret.v.put /\ <<2, 0>> \notin ret.v.put /\ <<4, 4>> \in ret.v.put

GradientDone == pc = "gradient_done"

Between(v, a, b) == (a <= v /\ v <= b) \/ (b <= v /\ v <= a)

AbsDiff(a, b) == IF a >= b THEN a - b ELSE b - a

\* C12 as stated: in a row of the horizontal gradient without noise the pixel
\* at x = 0 is color1, every channel stays between its two endpoint values
\* and is monotonic in x, and at x = w - 1 it is within one interpolation
\* step (|c2 - c1| / w, rounded up) of color2.
C12_GradientMonotonic ==
  GradientDone =>
    \A ch \in 1..3 :
      LET a == call.color1[ch]
          b == call.color2[ch]
          w == call.width
      IN  /\ ret.v[1][ch] = a
          /\ \A i \in 1..w : Between(ret.v[i][ch], a, b)
          /\ \A i \in 1..(w - 1) :
               IF a <= b THEN ret.v[i][ch] <= ret.v[i + 1][ch]
                         ELSE ret.v[i][ch] >= ret.v[i + 1][ch]
          /\ AbsDiff(b, ret.v[w][ch]) * w <= AbsDiff(b, a) + w - 1

\* the caller's second call has returned
SecondReturned == previous.some /\ pc \in {"returned", "freed"}

\* both calls drew the same values from the random source, and what the model
\* leaves open about the bundled assets, the encoder and faults fell the same
SameDraws == world = previous.v.world

BlendDone == pc = "text_done" /\ call.fn = "blend_glyph"

TextDone == pc = "text_done" /\ call.fn = "draw_text"

\* the bitmap row (from 0) and column of sample i of glyph g
RowOf(g, i) == (i - 1) \div g.width

ColOf(g, i) == (i - 1) % g.width

\* the surface row the top bitmap row of g belongs to for baseline y
TopRow(g, y) == y - (g.height + g.bearing_y)

\* C14: every glyph of one draw_text call is blended against the same
\* baseline y whatever its height; a written pixel of bitmap row r lies in
\* surface row y - (height + bearing_y) + r; a glyph with bearing_y >= 0
\* writes no pixel at or below row y; of a glyph with bearing_y < 0 every
\* inked sample of the bitmap rows from height + bearing_y on that falls on
\* the surface is written, at a row at or below y.
C14_BaselineAlignment ==
  /\ BlendDone =>
       LET g == call.glyph
       IN  /\ \A p \in ret.v.put :
                \E i \in 1..Len(g.data) :
                  /\ g.data[i] # 0
                  /\ p = << call.x + g.bearing_x + ColOf(g, i),
                            TopRow(g, call.y) + RowOf(g, i) >>
           /\ g.bearing_y >= 0 => \A p \in ret.v.put : p[2] < call.y
           /\ g.bearing_y < 0 =>
                \A i \in 1..Len(g.data) :
                  LET p == << call.x + g.bearing_x + ColOf(g, i),
                              TopRow(g, call.y) + RowOf(g, i) >>
                  IN  (/\ RowOf(g, i) >= g.height + g.bearing_y
                       /\ g.data[i] # 0
                       /\ InSurface(call.image, p))
                        => (p \in ret.v.put /\ p[2] >= call.y)
  /\ TextDone =>
       \A k \in 1..Len(ret.v.blends) :
         LET b == ret.v.blends[k]
         IN  /\ b.y = call.y
             /\ b.glyph = render_glyph(b.ch)
             /\ \A p \in b.put :
                  /\ p[2] >= TopRow(b.glyph, call.y)
                  /\ p[2] < TopRow(b.glyph, call.y) + b.glyph.height
             /\ b.glyph.bearing_y >= 0 => \A p \in b.put : p[2] < call.y

\* one line holds glyphs of two heights standing on row y - 1 and a
\* descender that reaches row y
C14_MixedHeightsOneBaseline ==
  /\ TextDone
  /\ \E j, k, d \in 1..Len(ret.v.blends) :
       LET bj == ret.v.blends[j]
           bk == ret.v.blends[k]
           bd == ret.v.blends[d]
       IN  /\ bj.glyph.height # bk.glyph.height
           /\ bj.glyph.bearing_y = 0 /\ bk.glyph.bearing_y = 0
           /\ \E p \in bj.put : p[2] = call.y - 1
           /\ \E p \in bk.put : p[2] = call.y - 1
           /\ bd.glyph.bearing_y < 0
           /\ \E p \in bd.put : p[2] >= call.y

\* the first path of the search order at which a file exists
FirstExisting(files) ==
  CHOOSE i \in 1..Len(font_paths) :
    files[i] # "absent" /\ \A j \in 1..(i - 1) : files[j] = "absent"

\* the first path of the search order whose file reads and parses
FirstUsable(files) ==
  CHOOSE i \in 1..Len(font_paths) :
    files[i] = "ok" /\ \A j \in 1..(i - 1) : files[j] # "ok"

NoFontError == outcome.kind = "err" /\ outcome.err = "NoFont"

\* the closure went past SnippetRenderer::new with a known theme
FontLoaderRan ==
  /\ pc \notin {"conv_code", "conv_language", "conv_theme", "parse_config",
                "new_renderer"}
  /\ config.some /\ get_theme(theme_str.v).some
  /\ ~(world.fault.some /\ world.fault.v = "new_renderer")

\* C15 as stated: the renderer holds the font at the first existing path.
C15_FirstExistingPathUsed ==
  renderer.some => renderer.v.font_manager.font = FirstExisting(font_env.files)

\* C15: the renderer holds the font of the first path of the search order
\* whose file exists, reads and parses; the loader fails if and only if no
\* path has such a file; after the failure the call only hands back null:
\* the loader is not entered again, there is no renderer, no canvas and no
\* drawing pass.
C15_FirstUsableFontOrFatal ==
  /\ [](renderer.some =>
          /\ FontLoadable
          /\ renderer.v.font_manager.font = FirstUsable(font_env.files))
  /\ [](FontLoaderRan => (NoFontError <=> ~FontLoadable))
  /\ [](~FontLoadable => (~renderer.some /\ image.allocs = 0 /\ log = <<>>))
  /\ [](NoFontError /\ result.some => result.v = NullPtr)
  /\ [][NoFontError =>
          /\ pc' \in {"returned", "freed"}
          /\ UNCHANGED << outcome, renderer, image, log, world >>]_vars

\* a corrupt file earlier in the search order was passed over
C15_CorruptFontSkipped ==
  /\ renderer.some
  /\ font_env.files[2] = "corrupt"
  /\ renderer.v.font_manager.font = 5
  /\ pc = "returned" /\ result.v.tag = "cstr"

LayoutDone == renderer.some /\ layout # NoLayout

\* the line advance the font gives at the configured, unscaled font size
UnscaledLineHeight(r) ==
  AsU32(get_line_height([r.font_manager EXCEPT !.size = r.config.font_size * 4])
          * r.config.line_height, 4)

\* C16 as stated: the panel height is the content height plus twice the
\* padding plus 40 for the window controls, the content height being the line
\* count (or one line for no lines) times the line advance at the unscaled
\* font size; the final width and height are the scaled width and the scaled
\* explicit-or-panel height plus twice the scaled panel padding, and the
\* export scale enters nowhere else.
C16_LayoutFromUnscaledValues ==
  LayoutDone =>
    LET c == renderer.v.config
        chrome == IF c.window_controls THEN 40 ELSE 0
        lines == Len(highlighted_lines)
    IN  /\ layout.content_height =
             (IF lines > 0 THEN lines ELSE 1) * UnscaledLineHeight(renderer.v)
        /\ layout.panel_height = layout.content_height + 2 * c.padding + chrome
        /\ layout.final_width =
             AsU32(c.width * c.export_size, 4)
               + 2 * AsU32(c.panel_padding * c.export_size, 4)
        /\ layout.final_height =
             AsU32((IF c.height.some THEN c.height.v ELSE layout.panel_height)
                     * c.export_size, 4)
               + 2 * AsU32(c.panel_padding * c.export_size, 4)

\* the samples of the glyph of the call whose destination is pixel p
SamplesAt(p) ==
  { i \in 1..Len(call.glyph.data) :
      p = << call.x + call.glyph.bearing_x + ColOf(call.glyph, i),
             TopRow(call.glyph, call.y) + RowOf(call.glyph, i) >> }

\* C17: blend_glyph returns Ok for every position of the glyph; a pixel of the
\* surface is written if and only if a sample with coverage > 0 has it as its
\* destination (pen x + bearing_x + column, baseline y - (height + bearing_y)
\* + row); a written pixel has alpha 255 and, for coverage 255, exactly the
\* given color; every other pixel keeps its value and no pixel outside the
\* surface is touched.
C17_BlendFrame ==
  BlendDone =>
    /\ ret.v.kind = "ok"
    /\ DOMAIN ret.v.px = DOMAIN call.image.px
    /\ ret.v.put \subseteq DOMAIN call.image.px
    /\ \A p \in DOMAIN call.image.px :
         IF \E i \in SamplesAt(p) : call.glyph.data[i] > 0
           THEN /\ p \in ret.v.put
                /\ ret.v.px[p][4] = 255
                /\ \A i \in SamplesAt(p) :
                     call.glyph.data[i] = 255 => ret.v.px[p] = call.color
           ELSE /\ p \notin ret.v.put
                /\ ret.v.px[p] = call.image.px[p]

\* a glyph hanging over the edge of a transparent canvas: an inked sample
\* falls outside, an empty sample falls inside, and a half-covered pixel
\* comes out opaque
C17_GlyphPartlyOffSurface ==
  /\ BlendDone
  /\ \E i \in 1..Len(call.glyph.data) :
       /\ call.glyph.data[i] > 0
       /\ \A p \in DOMAIN call.image.px : i \notin SamplesAt(p)
  /\ \E p \in DOMAIN call.image.px :
       /\ SamplesAt(p) # {}
       /\ \A i \in SamplesAt(p) : call.glyph.data[i] = 0
  /\ \E p \in ret.v.put :
       /\ \E i \in SamplesAt(p) : call.glyph.data[i] = 128
       /\ call.image.px[p][4] = 0
       /\ ret.v.px[p][4] = 255
       /\ ret.v.px[p] # call.color

ShapeDone == pc = "shape_done"

SurfacePixels(s) == (0..(s.width - 1)) \X (0..(s.height - 1))

\* the pixels of the rectangle of a call when it is drawn at the origin of
\* its surface, where all of it fits
ShapeAtOrigin(c) ==
  IF c.fn = "draw_rounded_rect"
    THEN draw_rounded_rect(c.surface, 0, 0, c.width, c.height, c.radius,
                           c.export_size).put
    ELSE draw_rounded_rect_top_only(c.surface, 0, 0, c.width, c.height,
                                    c.radius, c.export_size).put

\* C18: none of the three routines writes outside the surface or fails over
\* where the shape lies: a rounded rectangle returns Ok and writes the pixels
\* of the surface its shape covers at its position, whatever hangs over the
\* edges; draw_circle fails only when the color string does not convert, and
\* otherwise writes exactly the pixels of the surface within distance r of
\* (x, y), none for a negative r.
C18_ShapesClipSilently ==
  ShapeDone =>
    /\ ret.v.kind # "panic"
    /\ ret.v.put \subseteq SurfacePixels(call.surface)
    /\ call.fn # "draw_circle" =>
         /\ ret.v.kind = "ok"
         /\ ret.v.put =
              { p \in SurfacePixels(call.surface) :
                  <<p[1] - call.x, p[2] - call.y>> \in ShapeAtOrigin(call) }
    /\ call.fn = "draw_circle" =>
         /\ ret.v.kind = "ok" <=> rgba_from_hex(call.color_hex).kind = "ok"
         /\ ret.v.kind = "ok" =>
              ret.v.put =
                { p \in SurfacePixels(call.surface) :
                    /\ call.radius >= 0
                    /\ (p[1] - call.x) * (p[1] - call.x)
                         + (p[2] - call.y) * (p[2] - call.y)
                           <= call.radius * call.radius }

\* a circle centered left of the surface: its right part is drawn
C18_CircleOverTheEdge ==
  /\ ShapeDone /\ call.fn = "draw_circle"
  /\ call.x = -1 /\ call.y = 0 /\ call.radius = 2
  /\ ret.v.kind = "ok"
  /\ ret.v.put = {<<0, 0>>, <<1, 0>>, <<0, 1>>}

TopOnlyDone == pc = "shape_done" /\ call.fn = "draw_rounded_rect_top_only"

\* C19: with r = min(scaled radius, min(w, h) / 2), the top-only rounded
\* rectangle fills every pixel of its rows y >= r, the two bottom corners
\* included, and every pixel of the columns r <= x <= w - r; a pixel of a row
\* y < r in a corner column (x < r or x > w - r) is filled if and only if it
\* is within r of the arc center of that top corner, (r, r) or (w - r, r).
\* Coordinates are compared in sixteenths.
C19_TopOnlyHardBottom ==
  TopOnlyDone =>
    /\ ret.v.kind = "ok"
    /\ \A q \in ret.v.put :
         <<q[1] - call.x, q[2] - call.y>> \in OnSurfacePixels(call)
    /\ \A p \in OnSurfacePixels(call) :
         LET r == EffectiveRadius(call)
             X == p[1] * 16
             Y == p[2] * 16
             W == call.width * 16
             cx == IF X < r THEN r ELSE W - r
         IN  /\ Y >= r => FilledBy(call, ret.v, p)
             /\ (X >= r /\ X <= W - r) => FilledBy(call, ret.v, p)
             /\ (Y < r /\ (X < r \/ X > W - r)) =>
                  (FilledBy(call, ret.v, p)
                     <=> (X - cx) * (X - cx) + (Y - r) * (Y - r) <= r * r)

\* a 5 x 5 title bar whose radius was clamped to 2.5: the top corners are
\* cut, the bottom corners are filled
C19_TopCutBottomSquare ==
  /\ TopOnlyDone
  /\ call.width = 5 /\ call.height = 5 /\ call.x = 0 /\ call.y = 0
  /\ call.radius * call.export_size > 40 /\ EffectiveRadius(call) = 40
  /\ <<0, 0>> \notin ret.v.put /\ <<4, 0>> \notin ret.v.put
  /\ <<1, 1>> \in ret.v.put
  /\ <<0, 4>> \in ret.v.put /\ <<4, 4>> \in ret.v.put

ContentDone == pc = "text_done" /\ call.fn = "draw_code_content"

\* the draw_text calls made for line i (from 0), in the order made
TextsOfLine(i) == SelectSeq(ret.v.texts, LAMBDA t : t.line = i)

\* n written with at least three digits, zeros in front
ZeroPadded3(n) ==
  [i \in 1..(IF Len(to_decimal(n)) >= 3 THEN 0 ELSE 3 - Len(to_decimal(n))) |-> "0"]
    \o to_decimal(n)

\* what the claim says of line i except the text of its gutter: the gutter is
\* drawn first in the comment color and followed by the fixed spacing, the
\* tokens come next in their order, each starting where the one before
\* ended, and the pen of every draw_text call moves right by the whole
\* pixels of each glyph's advance
LineDrawnInOrder(i) ==
  LET ts == TextsOfLine(i)
      tokens == call.lines[i + 1].tokens
      cfg == call.renderer.config
  IN  /\ Len(ts) = 1 + Len(tokens)
      /\ ts[1].color = rgba_from_hex(call.renderer.theme.comment.hex).rgba
      /\ Len(ts) > 1 =>
           ts[2].x = ts[1].x + ts[1].v + AsU32(10 * cfg.export_size, 4)
      /\ \A k \in 2..Len(ts) :
           /\ ts[k].text = tokens[k - 1].text
           /\ ts[k].color = rgba_from_hex(tokens[k - 1].color.hex).rgba
           /\ k < Len(ts) => ts[k + 1].x = ts[k].x + ts[k].v
      /\ \A k \in 1..Len(ts) :
           /\ ts[k].v >= 0
           /\ \A j \in 1..Len(ts[k].blends) :
                /\ ts[k].blends[j].x >= ts[k].x
                /\ j < Len(ts[k].blends) =>
                     ts[k].blends[j + 1].x =
                       ts[k].blends[j].x
                         + (ts[k].blends[j].glyph.advance_width \div 4)
           /\ \A m \in 1..Len(ret.v.texts) :
                ret.v.texts[m].line > i => ret.v.texts[m].y >= ts[k].y

\* C20 as stated: with line numbers enabled every line, numbered from 1 from
\* the top, first draws its number zero-padded to three digits in the comment
\* color, then the fixed spacing, then its tokens in order, the pen never
\* moving left and each token starting where the previous one ended.
C20_ZeroPaddedGutter ==
  (ContentDone /\ call.renderer.config.line_numbers) =>
    /\ ret.v.kind = "ok"
    /\ \A i \in 0..(Len(call.lines) - 1) :
         /\ LineDrawnInOrder(i)
         /\ TextsOfLine(i)[1].text = ZeroPadded3(i + 1)


CodeDone == pc = "syntax_done" /\ call.fn = "highlight_code"

\* the source lines of a text: a line ends with each "\n", and what follows
\* the last "\n", when there is anything, is a line too
Newlines(code) == {i \in 1..Len(code) : code[i] = "\n"}

SourceLineCount(code) ==
  Cardinality(Newlines(code))
    + (IF code # <<>> /\ code[Len(code)] # "\n" THEN 1 ELSE 0)

\* the first character of source line k (from 1)
SourceLineStart(code, k) ==
  CHOOSE s \in 1..(Len(code) + 1) :
    /\ s = 1 \/ code[s - 1] = "\n"
    /\ Cardinality({i \in Newlines(code) : i < s}) = k - 1

\* source line k with its terminator, "\n" or "\r\n", taken off
SourceLine(code, k) ==
  LET s == SourceLineStart(code, k)
      ends == {i \in Newlines(code) : i >= s}
      e == IF ends = {} THEN Len(code) + 1
           ELSE CHOOSE i \in ends : \A j \in ends : i <= j
      t == IF e <= Len(code) /\ e > s /\ code[e - 1] = "\r" THEN e - 1 ELSE e
  IN  SubSeq(code, s, t - 1)

\* the texts of the tokens of a styled line, one after the other
RECURSIVE TextOf(_)
TextOf(tokens) ==
  IF tokens = <<>> THEN <<>> ELSE Head(tokens).text \o TextOf(Tail(tokens))

SpellsSource(lines, code) ==
  /\ Len(lines) = SourceLineCount(code)
  /\ \A k \in 1..Len(lines) : TextOf(lines[k].tokens) = SourceLine(code, k)

\* C21 as stated: highlight_code returns one styled line per source line, in
\* source order, on the grammar path and on the pattern fallback path, and
\* the token texts of a line, concatenated, are the raw text of that source
\* line with only its trailing line terminator taken off.
C21_TokensSpellSourceLine ==
  CodeDone => SpellsSource(ret.v, call.code)

LineScan == call.fn = "highlight_line" /\ pc \in {"scan", "syntax_done"}

LineDone == call.fn = "highlight_line" /\ pc = "syntax_done"

\* no slice or index of the scan went past the end of the line, the scan
\* position is inside the line or right after it, every token pushed so far
\* holds a character, the loop has run at most once per character, and
\* while the call has not returned it can take its next step
ScanInBounds ==
  LineScan =>
    /\ ret.v.kind # "panic"
    /\ ret.v.i <= Len(call.line)
    /\ ret.v.iterations <= Len(call.line)
    /\ \A k \in 1..Len(ret.v.tokens) : ret.v.tokens[k].text # <<>>
    /\ pc = "scan" => ENABLED (HighlightLineIterate \/ HighlightLineReturn)

\* an iteration of the loop moves the scan position forward or leaves the
\* loop by the break of the comment branch
ScanAdvances ==
  HighlightLineIterate => (ret'.v.i > ret.v.i \/ ret'.v.kind = "break")

\* C22: highlight_line terminates on every line: each iteration of its loop
\* strictly advances the scan position or ends the loop (comment), so that
\* the loop runs at most once per character of the line and then returns;
\* no index or slice goes past the end of the line, a trailing backslash
\* inside an unterminated string included, and every token emitted is
\* non-empty.
C22_ScanTerminatesInBounds ==
  /\ []ScanInBounds
  /\ [][ScanAdvances]_vars

\* an unterminated string that ends with a backslash was scanned to the end
\* of the line and returned as one token
C22_TrailingBackslashScanned ==
  /\ LineDone /\ ret.v.kind = "ok"
  /\ call.line = <<"a", "\"", "\\">>
  /\ ret.v.i = 3
  /\ ret.v.iterations = 2
  /\ Len(ret.v.tokens) = 2
  /\ ret.v.tokens[2].text = <<"\"", "\\">>

\* the loop run step by step returns the tokens that highlight_line returns
ScanMatchesLoop ==
  (LineDone /\ ret.v.kind = "ok") =>
     ret.v.tokens = highlight_line(call.line, call.theme).tokens

Placed == pc = "layout_done" /\ call.fn = "render_snippet"

\* the panel's first row and its scaled height
PanelTop == get_scaled_panel_padding(call.renderer.config)

PanelHeight ==
  get_actual_height(call.renderer.config, ret.v.layout.panel_height)

\* the scaled line advance
ScaledAdvance ==
  AsU32(ret.v.layout.line_height * call.renderer.config.export_size, 4)

\* the scaled height of the chrome bar, when there is one
ChromeBar ==
  IF call.renderer.config.window_controls
    THEN AsU32(40 * call.renderer.config.export_size, 4) ELSE 0

\* every text drawn has its baseline inside the panel, the first line's
\* baseline is the scaled padding below the chrome bar (below the panel's
\* top without one), and the baseline of line i is i scaled advances lower
BaselinesInPanel ==
  LET texts == ret.v.content.v.texts
  IN  /\ ret.v.content.v.kind = "ok"
      /\ Len(texts) = Len(call.lines)
      /\ \A k \in 1..Len(texts) :
           /\ PanelTop <= texts[k].y
           /\ texts[k].y < PanelTop + PanelHeight
           /\ texts[k].y =
                PanelTop + ChromeBar + get_scaled_padding(call.renderer.config)
                  + (texts[k].line * ScaledAdvance)

\* C23 as stated: with auto-computed height, for every line count, padding,
\* line-height multiplier and export scale, the baseline of every text line
\* lies inside the panel's vertical extent, the text starts below the chrome
\* bar (at the top padding without one), and consecutive baselines are one
\* scaled line advance apart.
C23_BaselinesInsidePanel ==
  Placed => BaselinesInPanel

\* C23 amended: the same when the scaled padding or the scaled line advance
\* is at least one pixel.
C23_BaselinesInsideNonEmptyPanel ==
  (Placed /\ (get_scaled_padding(call.renderer.config) >= 1 \/ ScaledAdvance >= 1))
    => BaselinesInPanel

\* three lines under a chrome bar at twice the size: the third baseline is
\* two scaled advances below the first and above the panel's last row
C23_ThreeLinesUnderChrome ==
  /\ Placed
  /\ call.renderer.config.window_controls
  /\ call.renderer.config.export_size = 8
  /\ call.renderer.config.padding = 1
  /\ Len(call.lines) = 3
  /\ ScaledAdvance >= 1
  /\ ret.v.content.v.texts[3].y = PanelTop + 80 + 2 + (2 * ScaledAdvance)
  /\ ret.v.content.v.texts[3].y < PanelTop + PanelHeight - 1

CanvasPcs ==
  { "canvas_backdrop", "canvas_panel", "canvas_chrome", "canvas_text",
    "canvas_encode", "canvas_done", "canvas_failed" }

\* a drawing pass has run over the canvas
PassDone == pc \in CanvasPcs /\ ret.v.passes # <<>>

Opaque(px) == \A p \in DOMAIN px : px[p][4] = 255

\* C24: after every drawing pass and in the image handed to the encoder
\* every pixel of the canvas has alpha 255, with the gradient backdrop, the
\* noise and the chrome on or off; no pass fails, leaves or writes a pixel
\* that is not opaque.
C24_OpaqueAfterEveryPass ==
  PassDone => (ret.v.kind = "ok" /\ Opaque(ret.v.px))

\* a canvas with a noisy gradient, the chrome and two lines of text handed
\* to the encoder: the first control's red, the title bar's darkened
\* background and the text color are on it, and before the backdrop its
\* pixels were transparent
C24_NoisyGradientEncoded ==
  /\ pc = "canvas_done"
  /\ call.renderer.config.gradient_backdrop /\ call.renderer.config.noise_effect
  /\ call.renderer.config.window_controls
  /\ ret.v.passes = <<"backdrop", "panel", "chrome", "text", "encoder">>
  /\ ImageBuffer_new(ret.v.width, ret.v.height).px[<<0, 0>>][4] = 0
  /\ \E p \in DOMAIN ret.v.px : ret.v.px[p] = <<255, 95, 86, 255>>
  /\ \E p \in DOMAIN ret.v.px : ret.v.px[p] = <<36, 37, 48, 255>>
  /\ \E p \in DOMAIN ret.v.px : ret.v.px[p] = <<248, 248, 242, 255>>
  /\ \E p \in DOMAIN ret.v.px :
       ret.v.px[p] \notin { <<255, 95, 86, 255>>, <<36, 37, 48, 255>>,
                            <<40, 42, 54, 255>>, <<248, 248, 242, 255>> }
====
